---------------------------- MODULE Spec2Model ----------------------------
(***************************************************************************)
(* A model of the Tata Sampann retrieval-and-ranking pipeline:             *)
(*   api/query_prep.py   normalize_query, extract_filters                  *)
(*   api/tata_search.py  _get_reranker, _matches_price, _matches_weight,   *)
(*                       _to_hit, _secondary_sort_key, search              *)
(*   api/tata_chat.py    the /tata/chat handler and its helpers            *)
(*                                                                         *)
(* Conventions.                                                            *)
(*   - A Python string is a sequence of one-character strings.             *)
(*   - An Optional value is <<>> (None) or <<v>> (the value v).            *)
(*   - A number is an integer count of tenths (float 1.5 is 15), so that   *)
(*     the decimal literals the regular expressions accept stay exact.     *)
(***************************************************************************)
EXTENDS Integers, Sequences, FiniteSets, TLC

(***************************************************************************)
(* Optional values                                                         *)
(***************************************************************************)
None == <<>>
Some(v) == <<v>>
IsNone(x) == x = <<>>
Val(x) == x[1]

(***************************************************************************)
(* Characters and strings                                                  *)
(***************************************************************************)
Digits == <<"0", "1", "2", "3", "4", "5", "6", "7", "8", "9">>
UpperCs == <<"A", "B", "C", "D", "E", "F", "G", "H", "I", "J", "K", "L", "M",
             "N", "O", "P", "Q", "R", "S", "T", "U", "V", "W", "X", "Y", "Z">>
LowerCs == <<"a", "b", "c", "d", "e", "f", "g", "h", "i", "j", "k", "l", "m",
             "n", "o", "p", "q", "r", "s", "t", "u", "v", "w", "x", "y", "z">>
\* The characters of the model in code-point order (a prefix of ASCII, then
\* the rupee sign).
CodeOrder == <<" ", "&", "'", "*", ",", ".", "/">> \o Digits \o <<"<", "=">>
             \o UpperCs \o <<"_">> \o LowerCs \o <<"RUPEE">>

RangeOf(s) == {s[i] : i \in DOMAIN s}
DigitSet == RangeOf(Digits)
UpperSet == RangeOf(UpperCs)
LowerSet == RangeOf(LowerCs)
SpaceSet == {" "}
WordSet == DigitSet \cup UpperSet \cup LowerSet \cup {"_"}

IndexIn(seq, c) == CHOOSE i \in DOMAIN seq : seq[i] = c
OrdTable == [c \in RangeOf(CodeOrder) |-> IndexIn(CodeOrder, c)]
Ord(c) == OrdTable[c]
LowerTable == [c \in RangeOf(CodeOrder) |->
                 IF c \in UpperSet THEN LowerCs[IndexIn(UpperCs, c)] ELSE c]
\* str.lower(), one character
LowerChar(c) == LowerTable[c]
\* str.lower()
Lower(s) == [i \in DOMAIN s |-> LowerChar(s[i])]
DigitVal(c) == IndexIn(Digits, c) - 1

\* Python's < on strings: lexicographic by code point.
RECURSIVE StrLess(_, _)
StrLess(a, b) ==
    IF b = <<>> THEN FALSE
    ELSE IF a = <<>> THEN TRUE
    ELSE IF Ord(Head(a)) < Ord(Head(b)) THEN TRUE
    ELSE IF Ord(Head(a)) > Ord(Head(b)) THEN FALSE
    ELSE StrLess(Tail(a), Tail(b))

Slice(s, i, j) == SubSeq(s, i, j - 1)   \* s[i-1:j-1] of Python, 1-based, end exclusive

\* str.strip() for the whitespace of the model (the space)
RECURSIVE LStrip(_)
LStrip(s) == IF s # <<>> /\ Head(s) \in SpaceSet THEN LStrip(Tail(s)) ELSE s
RECURSIVE RStrip(_)
RStrip(s) ==
    IF s # <<>> /\ s[Len(s)] \in SpaceSet THEN RStrip(SubSeq(s, 1, Len(s) - 1)) ELSE s
Strip(s) == RStrip(LStrip(s))

SetMax(S) == CHOOSE x \in S : \A y \in S : y <= x
SetMin(S) == CHOOSE x \in S : \A y \in S : x <= y

(***************************************************************************)
(* Regular expressions (Python's re), as syntax trees.  Ends(r, s, i, ci)  *)
(* is the set of positions at which a match of r that starts at position i *)
(* of s can end (the index after the last matched character); ci is the    *)
(* re.I flag.  Every pattern of this repository is built from greedy       *)
(* quantifiers over alternatives with distinct first characters, so the    *)
(* match Python finds at the leftmost start is the longest one.            *)
(***************************************************************************)
Lit(c) == [k |-> "lit", c |-> c]
Cls(S) == [k |-> "cls", s |-> S]
Cat(rs) == [k |-> "cat", rs |-> rs]
Alt(rs) == [k |-> "alt", rs |-> rs]
Star(r) == [k |-> "star", r |-> r]
WB == [k |-> "wb"]
Plus(r) == Cat(<<r, Star(r)>>)
Opt(r) == Alt(<<r, Cat(<<>>)>>)
Str(cs) == Cat([i \in DOMAIN cs |-> Lit(cs[i])])

IsWordAt(s, i) == i >= 1 /\ i <= Len(s) /\ s[i] \in WordSet
\* \b between s[i-1] and s[i]
IsBoundary(s, i) == IsWordAt(s, i - 1) # IsWordAt(s, i)
CharEq(a, b, ci) == IF ci THEN LowerChar(a) = LowerChar(b) ELSE a = b

RECURSIVE Ends(_, _, _, _)
Ends(r, s, i, ci) ==
    CASE r.k = "lit" -> IF i <= Len(s) /\ CharEq(s[i], r.c, ci) THEN {i + 1} ELSE {}
      [] r.k = "cls" -> IF i <= Len(s) /\ s[i] \in r.s THEN {i + 1} ELSE {}
      [] r.k = "wb" -> IF IsBoundary(s, i) THEN {i} ELSE {}
      [] r.k = "cat" ->
            IF r.rs = <<>> THEN {i}
            ELSE UNION {Ends(Cat(Tail(r.rs)), s, j, ci) : j \in Ends(Head(r.rs), s, i, ci)}
      [] r.k = "alt" -> UNION {Ends(r.rs[n], s, i, ci) : n \in DOMAIN r.rs}
      [] r.k = "star" ->
            {i} \cup UNION {Ends(r, s, j, ci) : j \in Ends(r.r, s, i, ci) \ {i}}

\* The end of the match of r at start i, 0 when there is none.
MatchEnd(r, s, i, ci) ==
    LET e == Ends(r, s, i, ci) IN IF e = {} THEN 0 ELSE SetMax(e)
\* re.search: the leftmost start of a match at or after position p, 0 when none.
SearchFrom(r, s, p, ci) ==
    LET starts == {i \in p..(Len(s) + 1) : Ends(r, s, i, ci) # {}}
    IN IF starts = {} THEN 0 ELSE SetMin(starts)
ReSearch(r, s, ci) == SearchFrom(r, s, 1, ci)
ReFound(r, s, ci) == ReSearch(r, s, ci) # 0

\* re.sub(r, repl, s): every non-overlapping match, left to right, replaced.
\* (No pattern of the repository matches the empty string.)
RECURSIVE SubFrom(_, _, _, _, _)
SubFrom(r, repl, s, p, ci) ==
    LET i == SearchFrom(r, s, p, ci) IN
    IF i = 0 THEN Slice(s, p, Len(s) + 1)
    ELSE LET j == MatchEnd(r, s, i, ci)
         IN Slice(s, p, i) \o repl \o SubFrom(r, repl, s, j, ci)
ReSub(r, repl, s, ci) == SubFrom(r, repl, s, 1, ci)

\* re.split(r, s): the pieces between the matches.
RECURSIVE SplitFrom(_, _, _, _)
SplitFrom(r, s, p, ci) ==
    LET i == SearchFrom(r, s, p, ci) IN
    IF i = 0 THEN <<Slice(s, p, Len(s) + 1)>>
    ELSE <<Slice(s, p, i)>> \o SplitFrom(r, s, MatchEnd(r, s, i, ci), ci)
ReSplit(r, s, ci) == SplitFrom(r, s, 1, ci)

\* The characters of a TLA+ string literal, as a Python string of the model.
Chars(str) == [i \in 1..Len(str) |-> SubSeq(str, i, i)]
Rupee == <<"RUPEE">>
Sp == Star(Cls(SpaceSet))
\* \d+(?:\.\d+)?
NumberRe == Cat(<<Plus(Cls(DigitSet)), Opt(Cat(<<Lit("."), Plus(Cls(DigitSet))>>))>>)

RECURSIVE IntOf(_)
IntOf(ds) == IF ds = <<>> THEN 0 ELSE 10 * IntOf(SubSeq(ds, 1, Len(ds) - 1)) + DigitVal(ds[Len(ds)])
\* float(txt) for a text matched by NumberRe, in tenths (exact for at most one
\* fractional digit, which is all the model's inputs carry).
ParseFloat(txt) ==
    LET dots == {i \in DOMAIN txt : txt[i] = "."}
    IN IF dots = {} THEN 10 * IntOf(txt)
       ELSE LET d == SetMin(dots)
            IN 10 * IntOf(SubSeq(txt, 1, d - 1)) + DigitVal(txt[d + 1])

(***************************************************************************)
(* api/query_prep.py                                                       *)
(***************************************************************************)
R_CURRENCY ==
    Cat(<<Alt(<<Lit("RUPEE"),
                Cat(<<WB, Str(Chars("rs")), Opt(Lit(".")), Sp>>),
                Cat(<<WB, Str(Chars("inr")), Sp>>)>>),
          Sp, NumberRe>>)
R_WEIGHT ==
    Cat(<<NumberRe, Sp,
          Alt(<<Str(Chars("kg")), Str(Chars("g")), Str(Chars("l")), Str(Chars("ml"))>>),
          WB>>)
\* \b(under|<=|below|less than)\s*(\d+(?:\.\d+)?)\b
R_UNDER ==
    Cat(<<WB,
          Alt(<<Str(Chars("under")), Str(Chars("<=")), Str(Chars("below")),
                Str(Chars("less than"))>>),
          Sp, NumberRe, WB>>)
\* \bdry\s*fruits?\b
R_DRY_FRUITS ==
    Cat(<<WB, Str(Chars("dry")), Sp, Str(Chars("fruit")), Opt(Lit("s")), WB>>)
\* \s{2,}
R_SPACES == Cat(<<Cls(SpaceSet), Plus(Cls(SpaceSet))>>)

\* The SYNONYMS table of query_prep.py, in its (insertion) order.
PREP_SYNONYMS ==
    << <<Cat(<<WB, Str(Chars("protein")), Sp, Str(Chars("rich")), WB>>), Chars("high protein")>>,
       <<Cat(<<WB, Str(Chars("high")), Sp, Str(Chars("in")), Sp, Str(Chars("protein")), WB>>),
         Chars("high protein")>>,
       <<Cat(<<WB, Str(Chars("pack")), Sp, Str(Chars("size")), WB>>), Chars("net weight")>>,
       <<Cat(<<WB, Str(Chars("net")), Sp, Str(Chars("wt")), WB>>), Chars("net weight")>> >>

RECURSIVE ApplySynonyms(_, _)
ApplySynonyms(s, n) ==
    IF n > Len(PREP_SYNONYMS) THEN s
    ELSE ApplySynonyms(ReSub(PREP_SYNONYMS[n][1], PREP_SYNONYMS[n][2], s, TRUE), n + 1)

\* re.sub(r"RUPEE\s*(\d)", r"RUPEE\1", s): the spaces between the rupee sign and
\* the digit that follows are dropped.
RECURSIVE RupeeSpacing(_, _)
RupeeSpacing(s, p) ==
    LET r == Cat(<<Lit("RUPEE"), Sp, Cls(DigitSet)>>)
        i == SearchFrom(r, s, p, FALSE)
    IN IF i = 0 THEN Slice(s, p, Len(s) + 1)
       ELSE LET j == MatchEnd(r, s, i, FALSE)
            IN Slice(s, p, i) \o Rupee \o <<s[j - 1]>> \o RupeeSpacing(s, j)

normalize_query(q) == RupeeSpacing(ApplySynonyms(Strip(q), 1), 1)

\* The text of the number inside the match [i, j) of a pattern whose only digits
\* are its number group.
NumberIn(s, i, j) ==
    LET ds == {n \in i..(j - 1) : s[n] \in DigitSet \cup {"."}}
    IN Slice(s, SetMin({n \in ds : s[n] \in DigitSet}), SetMax({n \in ds : s[n] \in DigitSet}) + 1)
\* group(2) of an R_WEIGHT match [i, j): the letters it ends with.
UnitIn(s, i, j) ==
    Slice(s, SetMax({n \in i..(j - 1) : s[n] \notin LowerSet \cup UpperSet}) + 1, j)

\* The steps of extract_filters take the values computed before them as
\* parameters, each value being computed once.
\* max_price: the number of the first R_CURRENCY match at m, else of the
\* "under/below/less than" match at m2, else None
MaxPriceOf(qn, m, m2) ==
    IF m # 0 THEN Some(ParseFloat(NumberIn(qn, m, MatchEnd(R_CURRENCY, qn, m, TRUE))))
    ELSE IF m2 # 0
         THEN Some(ParseFloat(NumberIn(qn, m2, MatchEnd(R_UNDER, qn, m2, TRUE))))
         ELSE None
\* (weight_value, weight_unit) of the R_WEIGHT match [mw, mwEnd)
WeightOf(qn, mw, mwEnd) ==
    IF mw # 0
    THEN <<Some(ParseFloat(NumberIn(qn, mw, mwEnd))), Some(Lower(UnitIn(qn, mw, mwEnd)))>>
    ELSE <<None, None>>
WeightAt(qn, mw) == WeightOf(qn, mw, MatchEnd(R_WEIGHT, qn, mw, TRUE))
\* cleaned: the three patterns removed, spaces collapsed, stripped
CleanedQuery(qn) ==
    Strip(ReSub(R_SPACES, Chars(" "),
                ReSub(R_UNDER, <<>>,
                      ReSub(R_WEIGHT, <<>>, ReSub(R_CURRENCY, <<>>, qn, TRUE), TRUE), TRUE),
                FALSE))
FiltersOf(q, cleaned, max_price, weight, category) ==
    [query |-> IF cleaned # <<>> THEN cleaned ELSE Strip(q),
     max_price |-> max_price,
     weight_value |-> weight[1],
     weight_unit |-> weight[2],
     category |-> category]
ExtractNormalized(q, qn) ==
    FiltersOf(q, CleanedQuery(qn),
              MaxPriceOf(qn, ReSearch(R_CURRENCY, qn, TRUE), ReSearch(R_UNDER, qn, TRUE)),
              WeightAt(qn, ReSearch(R_WEIGHT, qn, TRUE)),
              IF ReFound(R_DRY_FRUITS, qn, TRUE) THEN Some(Chars("Dry Fruits")) ELSE None)
extract_filters(q) == ExtractNormalized(q, normalize_query(q))

(***************************************************************************)
(* Sorting.  list.sort(key=...) is stable; a key is a tuple, modelled as a *)
(* sequence of components, each a sequence of integers (a number n is      *)
(* <<0, n>>, float("inf") is <<1, 0>>, -float("inf") is <<-1, 0>>, a       *)
(* string is its code points), compared as Python compares tuples.         *)
(***************************************************************************)
RECURSIVE IntSeqLess(_, _)
IntSeqLess(a, b) ==
    IF b = <<>> THEN FALSE
    ELSE IF a = <<>> THEN TRUE
    ELSE IF Head(a) < Head(b) THEN TRUE
    ELSE IF Head(a) > Head(b) THEN FALSE
    ELSE IntSeqLess(Tail(a), Tail(b))
RECURSIVE KeyLess(_, _)
KeyLess(a, b) ==
    IF a = <<>> \/ b = <<>> THEN FALSE
    ELSE IF Head(a) = Head(b) THEN KeyLess(Tail(a), Tail(b))
    ELSE IntSeqLess(Head(a), Head(b))
NumKey(n) == <<0, n>>
PosInf == <<1, 0>>
NegInf == <<-1, 0>>
NegKey(c) == <<-c[1], -c[2]>>
StrKey(s) == [i \in DOMAIN s |-> Ord(s[i])]

\* items sorted by keys (keys[i] the key of items[i]), equal keys in their old order
StableSort(items, keys) ==
    LET n == Len(items)
        rank(i) == Cardinality({j \in 1..n : \/ KeyLess(keys[j], keys[i])
                                             \/ (keys[j] = keys[i] /\ j < i)}) + 1
    IN [p \in 1..n |-> items[CHOOSE i \in 1..n : rank(i) = p]]
SortBy(items, key(_)) == StableSort(items, [i \in DOMAIN items |-> key(items[i])])

(***************************************************************************)
(* api/tata_search.py                                                      *)
(***************************************************************************)
\* the literal -1e9 of the ranking keys
NEG_1E9 == -1000000000
\* x or d, for an Optional number x (None and 0 are falsy)
OrElse(x, d) == IF IsNone(x) \/ Val(x) = 0 THEN d ELSE Val(x)
\* s or "", for an Optional string
OrEmpty(s) == IF IsNone(s) THEN <<>> ELSE Val(s)
\* not sku: None and the empty string are falsy
Falsy(s) == IsNone(s) \/ Val(s) = <<>>

EmptyDict == [title |-> None, category |-> None, mrp |-> None, net_quantity |-> None]
EmptyNQ == [value |-> None, unit |-> None]
\* _cards_by_sku.get(sku): None when the key is absent
CardGet(cards, sku) ==
    IF ~IsNone(sku) /\ Val(sku) \in DOMAIN cards THEN Some(cards[Val(sku)]) ELSE None
\* card.get("net_quantity") or {}
NQ(card) == IF IsNone(card.net_quantity) THEN EmptyNQ ELSE Val(card.net_quantity)

\* A variant of _matches_price that lets a card without mrp through.
MatchesPriceNullPasses(card, max_price) ==
    IF IsNone(max_price) THEN TRUE
    ELSE IF IsNone(card.mrp) THEN TRUE
    ELSE Val(card.mrp) <= Val(max_price)

_matches_price(card, max_price) ==
    IF IsNone(max_price) THEN TRUE
    ELSE IF IsNone(card.mrp) THEN FALSE
    ELSE Val(card.mrp) <= Val(max_price)

\* A variant of _matches_weight that compares the units as written.
MatchesWeightCaseSensitive(card, weight_value, weight_unit) ==
    IF IsNone(weight_value) /\ IsNone(weight_unit) THEN TRUE
    ELSE IF ~IsNone(weight_value) /\ IsNone(NQ(card).value) THEN FALSE
    ELSE IF ~IsNone(weight_value) /\ Val(NQ(card).value) # Val(weight_value) THEN FALSE
    ELSE IF ~IsNone(weight_unit) /\ OrEmpty(NQ(card).unit) # Val(weight_unit) THEN FALSE
    ELSE TRUE

_matches_weight(card, weight_value, weight_unit) ==
    IF IsNone(weight_value) /\ IsNone(weight_unit) THEN TRUE
    ELSE LET nq == NQ(card)
             val == nq.value
             unit == Lower(OrEmpty(nq.unit))
         IN IF ~IsNone(weight_value) /\ IsNone(val) THEN FALSE
            ELSE IF ~IsNone(weight_value) /\ Val(val) # Val(weight_value) THEN FALSE
            ELSE IF ~IsNone(weight_unit) /\ unit # Lower(Val(weight_unit)) THEN FALSE
            ELSE TRUE

_to_hit(cards, doc, score, ce) ==
    LET got == CardGet(cards, doc.sku_id)
        card == IF IsNone(got) THEN EmptyDict ELSE Val(got)
        nq == NQ(card)
    IN [sku_id |-> doc.sku_id,
        title |-> doc.title,
        category |-> doc.category,
        price_inr |-> IF doc.has_price THEN doc.price_inr ELSE card.mrp,
        weight |-> [value |-> nq.value, unit |-> nq.unit],
        text |-> doc.page_content,
        score |-> score,
        ce_score |-> ce]

\* A variant of _secondary_sort_key whose price_desc key negates +inf for a
\* missing price, which puts the hits without a price first.
SecondarySortKeyNullsFirst(hit, sort) ==
    IF sort = "price_asc"
    THEN <<IF ~IsNone(hit.price_inr) THEN NumKey(Val(hit.price_inr)) ELSE PosInf,
           StrKey(Lower(OrEmpty(hit.title)))>>
    ELSE IF sort = "price_desc"
    THEN <<NegKey(IF ~IsNone(hit.price_inr) THEN NumKey(Val(hit.price_inr)) ELSE PosInf),
           StrKey(Lower(OrEmpty(hit.title)))>>
    ELSE <<StrKey(Lower(OrEmpty(hit.title)))>>

_secondary_sort_key(hit, sort) ==
    LET title == StrKey(Lower(OrEmpty(hit.title)))
        price == hit.price_inr
    IN IF sort = "price_asc"
       THEN <<IF ~IsNone(price) THEN NumKey(Val(price)) ELSE PosInf, title>>
       ELSE IF sort = "price_desc"
       THEN <<NegKey(IF ~IsNone(price) THEN NumKey(Val(price)) ELSE NegInf), title>>
       ELSE <<title>>

\* _get_reranker(model_name) with the module globals HAS_CE and _reranker:
\* raises HTTPException(500) when no handle is loaded and the package is missing,
\* loads CrossEncoder(model_name) on first use, keeps a loaded handle.
_get_reranker(has_ce, handle, model_name) ==
    IF IsNone(handle)
    THEN IF ~has_ce THEN [raised |-> TRUE, handle |-> handle]
         ELSE [raised |-> FALSE, handle |-> Some(model_name)]
    ELSE [raised |-> FALSE, handle |-> handle]

\* step 1: the filters in effect (explicit parameters override inferred ones)
EffectiveFilters(req, f) ==
    [category |-> IF ~IsNone(req.category) THEN req.category ELSE f.category,
     max_price |-> IF ~IsNone(req.max_price) THEN req.max_price ELSE f.max_price,
     weight_value |-> IF ~IsNone(req.weight_value) THEN req.weight_value ELSE f.weight_value,
     weight_unit |-> IF ~IsNone(req.weight_unit) THEN req.weight_unit ELSE f.weight_unit]

\* step 3: the raw (doc, dist) pairs whose card resolves and passes the filters
Candidates(cards, raw, use) ==
    LET keep(pair) ==
            /\ ~Falsy(pair.doc.sku_id)
            /\ ~IsNone(CardGet(cards, pair.doc.sku_id))
            /\ _matches_price(Val(CardGet(cards, pair.doc.sku_id)), use.max_price)
            /\ _matches_weight(Val(CardGet(cards, pair.doc.sku_id)),
                               use.weight_value, use.weight_unit)
    IN SelectSeq(raw, keep)

\* key of line 201: (-(h["ce_score"] or -1e9), h["score"])
CEKey(h) == <<NumKey(-OrElse(h.ce_score, NEG_1E9)), NumKey(h.score)>>
\* key of line 206: (h["score"], h["title"] or "")
DenseKey(h) == <<NumKey(h.score), StrKey(OrEmpty(h.title))>>

\* A variant of step 4 that scores the candidates only, without the fallback
\* to the raw pairs.
ScoredCandidatesOnly(cards, raw, candidates, ce_used, ce_scores) ==
    IF ce_used
    THEN SortBy([i \in DOMAIN candidates |->
                    _to_hit(cards, candidates[i].doc, candidates[i].dist,
                            Some(ce_scores[candidates[i].doc.page_content]))],
                CEKey)
    ELSE SortBy([i \in DOMAIN candidates |->
                    _to_hit(cards, candidates[i].doc, candidates[i].dist, None)],
                DenseKey)

\* step 4: the scored hits, ranked
Scored(cards, raw, candidates, ce_used, ce_scores) ==
    IF ce_used
    THEN SortBy([i \in DOMAIN candidates |->
                    _to_hit(cards, candidates[i].doc, candidates[i].dist,
                            Some(ce_scores[candidates[i].doc.page_content]))],
                CEKey)
    ELSE LET src == IF candidates # <<>> THEN candidates ELSE raw
         IN SortBy([i \in DOMAIN src |-> _to_hit(cards, src[i].doc, src[i].dist, None)],
                   DenseKey)

\* h replaces prev in best_by_sku
Better(h, prev, ce_used) ==
    IF ce_used THEN OrElse(h.ce_score, NEG_1E9) > OrElse(prev.ce_score, NEG_1E9)
    ELSE h.score < prev.score

\* A variant of step 5 that keys the dictionary on the passage text.
RECURSIVE BestByText(_, _, _)
BestByText(scored, n, ce_used) ==
    IF n = 0 THEN <<>>
    ELSE LET best == BestByText(scored, n - 1, ce_used)
             h == scored[n]
             at == {i \in DOMAIN best : best[i].text = h.text}
         IN IF Falsy(h.sku_id) THEN best
            ELSE IF at = {} THEN Append(best, h)
            ELSE LET i == CHOOSE x \in at : TRUE
                 IN IF Better(h, best[i], ce_used) THEN [best EXCEPT ![i] = h] ELSE best

\* step 5: best_by_sku after the first n scored hits, as the list of its values
\* (a dict keeps insertion order, and an overwritten key keeps its place)
RECURSIVE BestBySku(_, _, _)
BestBySku(scored, n, ce_used) ==
    IF n = 0 THEN <<>>
    ELSE LET best == BestBySku(scored, n - 1, ce_used)
             h == scored[n]
             at == {i \in DOMAIN best : best[i].sku_id = h.sku_id}
         IN IF Falsy(h.sku_id) THEN best
            ELSE IF at = {} THEN Append(best, h)
            ELSE LET i == CHOOSE x \in at : TRUE
                 IN IF Better(h, best[i], ce_used) THEN [best EXCEPT ![i] = h] ELSE best

Deduped(scored, distinct_by_sku, ce_used) ==
    IF distinct_by_sku THEN BestBySku(scored, Len(scored), ce_used) ELSE scored

\* step 6: the final sort
FinalKey(h, sort, ce_used) ==
    IF sort = "relevance"
    THEN IF ce_used THEN CEKey(h) \o _secondary_sort_key(h, "title_asc")
         ELSE <<NumKey(h.score)>> \o _secondary_sort_key(h, "title_asc")
    ELSE _secondary_sort_key(h, sort)
FinalSort(hits, sort, ce_used) ==
    LET key(h) == FinalKey(h, sort, ce_used) IN SortBy(hits, key)

\* A variant of step 7 that returns the whole sorted list.
TruncateKeepsAll(hits, k) == hits

\* step 7: hits[:k]
Truncate(hits, k) == SubSeq(hits, 1, IF Len(hits) < k THEN Len(hits) ELSE k)

(***************************************************************************)
(* The catalogue of the model: the cards _load_cards read at import, and   *)
(* the passages of the vector store.  The store is written by a later      *)
(* ingestion than the cards in memory, so a passage may carry a price its  *)
(* card no longer has, or a sku_id no card in memory has.                  *)
(***************************************************************************)
Card(title, category, mrp, value, unit) ==
    [title |-> Some(Chars(title)), category |-> Some(Chars(category)), mrp |-> mrp,
     net_quantity |-> Some([value |-> value, unit |-> unit])]
LoadedCards ==
    (Chars("S1") :> Card("Chana Dal", "Pulses", Some(500), Some(10), Some(Chars("kg"))))
    @@ (Chars("S2") :> Card("Besan", "Pulses", Some(600), Some(5000), Some(Chars("g"))))
    @@ (Chars("S3") :> Card("chana dal", "Pulses", None, Some(10), None))

Doc(id, sku, title, category, has_price, price) ==
    [page_content |-> id, sku_id |-> sku, title |-> title, category |-> category,
     has_price |-> has_price, price_inr |-> price]
StoreDocs ==
    { Doc("S1#overview", Some(Chars("S1")), Some(Chars("Chana Dal")), Some(Chars("Pulses")),
          TRUE, Some(500)),
      Doc("S1#diet", Some(Chars("S1")), Some(Chars("Chana Dal")), Some(Chars("Pulses")),
          TRUE, Some(500)),
      Doc("S2#overview", Some(Chars("S2")), Some(Chars("Besan")), Some(Chars("Pulses")),
          TRUE, Some(500)),
      Doc("S3#overview", Some(Chars("S3")), Some(Chars("chana dal")), Some(Chars("Pulses")),
          FALSE, None),
      Doc("S9#overview", Some(Chars("S9")), Some(Chars("Almonds")), Some(Chars("Dry Fruits")),
          TRUE, Some(900)),
      Doc("legacy", None, None, None, FALSE, None) }

\* The cards the later ingestion wrote to cards.jsonl: S2's price has dropped
\* and S9 is new.
ReindexedCards ==
    [LoadedCards EXCEPT ![Chars("S2")].mrp = Some(500)]
    @@ (Chars("S9") :> Card("Almonds", "Dry Fruits", Some(900), Some(2000), Some(Chars("g"))))
\* build_passages: the passages an ingestion of the cards writes to the store,
\* each with the card's title, category and mrp in its metadata
Sections ==
    {<<"S1", "S1#overview">>, <<"S1", "S1#diet">>, <<"S2", "S2#overview">>,
     <<"S3", "S3#overview">>, <<"S9", "S9#overview">>}
PassagesOf(cards) ==
    {Doc(s[2], Some(Chars(s[1])), cards[Chars(s[1])].title, cards[Chars(s[1])].category,
         ~IsNone(cards[Chars(s[1])].mrp), cards[Chars(s[1])].mrp) :
        s \in {x \in Sections : Chars(x[1]) \in DOMAIN cards}}

(***************************************************************************)
(* api/tata_chat.py                                                        *)
(***************************************************************************)
K == 8
RANKER == "cross_encoder"
SORT == "relevance"
DISTINCT_BY_SKU == TRUE
CE_MODEL == "cross-encoder/ms-marco-MiniLM-L-6-v2"
CE_K == 40
MIN_SIM == None

W(str) == Str(Chars(str))
\* \b(hi|hey|hello|yo|namaste|good (morning|afternoon|evening))\b, re.I
GREETING_RE ==
    Cat(<<WB,
          Alt(<<W("hi"), W("hey"), W("hello"), W("yo"), W("namaste"),
                Cat(<<W("good "), Alt(<<W("morning"), W("afternoon"), W("evening")>>)>>)>>),
          WB>>)
\* \b(how are you|what'?s up|thanks|thank you|help)\b, re.I
SMALLTALK_RE ==
    Cat(<<WB,
          Alt(<<W("how are you"), Cat(<<W("what"), Opt(Lit("'")), W("s up")>>),
                W("thanks"), W("thank you"), W("help")>>),
          WB>>)
\* \b(list( all)?|show( me)?|browse|catalogue|catalog|all products?|
\*    what (do you|you) have|menu|range|entire (list|range))\b, re.I
BROWSE_RE ==
    Cat(<<WB,
          Alt(<<Cat(<<W("list"), Opt(W(" all"))>>),
                Cat(<<W("show"), Opt(W(" me"))>>),
                W("browse"), W("catalogue"), W("catalog"),
                Cat(<<W("all product"), Opt(Lit("s"))>>),
                Cat(<<W("what "), Alt(<<W("do you"), W("you")>>), W(" have")>>),
                W("menu"), W("range"),
                Cat(<<W("entire "), Alt(<<W("list"), W("range")>>)>>)>>),
          WB>>)
\* \b(compare|vs|versus)\b, re.I
COMPARE_RE == Cat(<<WB, Alt(<<W("compare"), W("vs"), W("versus")>>), WB>>)

\* " ".join(parts)
RECURSIVE Join(_)
Join(parts) ==
    IF parts = <<>> THEN <<>>
    ELSE IF Len(parts) = 1 THEN parts[1]
    ELSE parts[1] \o <<" ">> \o Join(Tail(parts))
\* re.sub(r"[^\w\u0900-\u097F]+", " ", s.lower()).split(): the maximal runs of
\* word characters of the lowercased text.  WordRuns(s, n, cur) has read the
\* first n - 1 characters and holds the run in progress in cur.
RECURSIVE WordRuns(_, _, _)
WordRuns(s, n, cur) ==
    IF n > Len(s) THEN (IF cur = <<>> THEN <<>> ELSE <<cur>>)
    ELSE IF s[n] \in WordSet THEN WordRuns(s, n + 1, Append(cur, s[n]))
    ELSE (IF cur = <<>> THEN <<>> ELSE <<cur>>) \o WordRuns(s, n + 1, <<>>)
_tokens(s) == WordRuns(Lower(s), 1, <<>>)

\* The SYNONYMS table: keys in insertion order; the members of a set in the
\* order the source writes them (the model fixes the iteration order of a set
\* to that order).
Syn(key, members) == <<Chars(key), [i \in DOMAIN members |-> Chars(members[i])]>>
SYNONYMS ==
    << Syn("kaju", <<"cashew", "cashews", "kaju">>),
       Syn("badam", <<"almond", "almonds", "badam">>),
       Syn("pista", <<"pistachio", "pistachios", "pista">>),
       Syn("akhrot", <<"walnut", "walnuts", "akhrot">>),
       Syn("chironji", <<"charoli", "chironji">>),
       Syn("chia", <<"chia", "chia seeds">>),
       Syn("chia seeds", <<"chia", "chia seeds">>),
       Syn("dates", <<"dates", "khajoor">>),
       Syn("kalmi", <<"kalmi", "kalmi dates", "dates", "khajoor">>),
       Syn("kalmi dates", <<"kalmi", "kalmi dates", "dates", "khajoor">>),
       Syn("moong", <<"moong", "green gram">>),
       Syn("masoor", <<"masoor", "red lentil", "red lentils">>),
       Syn("urad", <<"urad", "black gram">>),
       Syn("chana", <<"chana", "bengal gram", "chickpea", "chickpeas">>),
       Syn("toor", <<"toor", "arhar", "pigeon pea", "pigeon peas">>),
       Syn("rajma", <<"rajma", "kidney bean", "kidney beans">>),
       Syn("chai", <<"tea", "chai">>),
       Syn("tea", <<"tea", "chai">>),
       Syn("coffee", <<"coffee", "cold brew">>),
       Syn("beverages", <<"beverages", "tea", "coffee">>),
       Syn("haldi", <<"turmeric", "haldi">>),
       Syn("dhania", <<"coriander", "dhania">>),
       Syn("mirchi", <<"chilli", "chili", "mirchi">>) >>

Fam(key, members) == <<Chars(key), {Chars(members[i]) : i \in DOMAIN members}>>
CATEGORY_ALIASES ==
    << Fam("pulses", <<"pulses", "dals", "lentils">>),
       Fam("spices", <<"spices", "spice">>),
       Fam("dry fruits", <<"dry fruits", "nuts", "seeds", "dates">>),
       Fam("tea, coffee and beverages",
           <<"tea, coffee and beverages", "beverages", "tea", "coffee">>) >>

is_smalltalk(msg) ==
    /\ Strip(Lower(msg)) # <<>>
    /\ \/ ReFound(GREETING_RE, Strip(Lower(msg)), TRUE)
       \/ ReFound(SMALLTALK_RE, Strip(Lower(msg)), TRUE)
is_browse_intent(msg) ==
    Lower(Strip(msg)) # <<>> /\ ReFound(BROWSE_RE, Lower(Strip(msg)), TRUE)
is_compare_intent(msg) == ReFound(COMPARE_RE, msg, TRUE)

\* The synonym set expand_query_with_synonyms walks for token t: SYNONYMS[t]
\* when t is a key, else the first set of SYNONYMS.values() that holds t,
\* else nothing.
SynonymGroup(t) ==
    LET keyed == {n \in DOMAIN SYNONYMS : SYNONYMS[n][1] = t}
        holding == {n \in DOMAIN SYNONYMS : t \in RangeOf(SYNONYMS[n][2])}
    IN IF keyed # {} THEN SYNONYMS[SetMin(keyed)][2]
       ELSE IF holding # {} THEN SYNONYMS[SetMin(holding)][2]
       ELSE <<>>
\* one walk over a set: the members not yet in `added` are appended
RECURSIVE AddGroup(_, _, _)
AddGroup(st, group, n) ==
    IF n > Len(group) THEN st
    ELSE AddGroup(IF group[n] \in st.added THEN st
                  ELSE [expanded |-> Append(st.expanded, group[n]),
                        added |-> st.added \cup {group[n]}],
                  group, n + 1)
\* A variant of ExpandTokens that de-duplicates the whole output: a token
\* already emitted is not appended again.
RECURSIVE ExpandTokensDeduplicated(_, _)
ExpandTokensDeduplicated(toks, n) ==
    IF n = 0 THEN [expanded |-> <<>>, added |-> {}]
    ELSE LET st == ExpandTokensDeduplicated(toks, n - 1)
         IN AddGroup(IF toks[n] \in st.added THEN st
                     ELSE [expanded |-> Append(st.expanded, toks[n]),
                           added |-> st.added \cup {toks[n]}],
                     SynonymGroup(toks[n]), 1)
RECURSIVE ExpandTokens(_, _)
ExpandTokens(toks, n) ==
    IF n = 0 THEN [expanded |-> <<>>, added |-> {}]
    ELSE AddGroup([ExpandTokens(toks, n - 1) EXCEPT !.expanded = Append(@, toks[n])],
                  SynonymGroup(toks[n]), 1)
ExpandAll(toks) == Join(ExpandTokens(toks, Len(toks)).expanded)
expand_query_with_synonyms(q) == ExpandAll(_tokens(q))

GENERIC_TOKENS ==
    {Chars(w) : w \in {"tata", "sampann", "premium", "superfood", "healthy", "pack", "pure",
                       "natural", "seed", "seeds", "nut", "nuts", "dry", "fruits", "dates",
                       "product", "food", "brand", "range"}}

\* max(all_toks, key=len): the first token of the greatest length
LongestToken(toks) ==
    toks[SetMin({i \in DOMAIN toks : \A j \in DOMAIN toks : Len(toks[j]) <= Len(toks[i])})]
DistinctiveTokens(all_toks) ==
    {t \in RangeOf(all_toks) : t \notin GENERIC_TOKENS /\ Len(t) >= 3}
RequiredFrom(all_toks) ==
    IF DistinctiveTokens(all_toks) # {} THEN DistinctiveTokens(all_toks)
    ELSE IF all_toks # <<>> THEN {LongestToken(all_toks)}
    ELSE {}
_required_tokens_for_target(target) == RequiredFrom(_tokens(target))

\* family_hint: the first family of CATEGORY_ALIASES with an alias among the
\* query tokens, None when there is none
FamilyHint(q_tokens) ==
    LET fams == {n \in DOMAIN CATEGORY_ALIASES : q_tokens \cap CATEGORY_ALIASES[n][2] # {}}
    IN IF fams = {} THEN None ELSE Some(SetMin(fams))
\* h.get("sim") or 0.0: a hit of search carries no "sim"
SimOf(h) == 0
CategoryMatch(h, q_tokens, family_hint) ==
    IF Lower(OrEmpty(h.category)) = <<>> THEN FALSE
    ELSE IF ~IsNone(family_hint)
    THEN Lower(Strip(Lower(OrEmpty(h.category)))) \in CATEGORY_ALIASES[Val(family_hint)][2]
    ELSE q_tokens \cap RangeOf(_tokens(Lower(Strip(Lower(OrEmpty(h.category)))))) # {}
\* A variant of the test of one hit that looks at the title only.
StrictKeepTitleOnly(h, q_tokens, family_hint) ==
    /\ IsNone(MIN_SIM) \/ SimOf(h) >= Val(MIN_SIM)
    /\ q_tokens \cap RangeOf(_tokens(OrEmpty(h.title))) # {}

StrictKeep(h, q_tokens, family_hint) ==
    /\ IsNone(MIN_SIM) \/ SimOf(h) >= Val(MIN_SIM)
    /\ \/ q_tokens \cap RangeOf(_tokens(OrEmpty(h.title))) # {}
       \/ CategoryMatch(h, q_tokens, family_hint)
StrictFilter(hits, q_tokens) ==
    LET keep(h) == StrictKeep(h, q_tokens, FamilyHint(q_tokens))
    IN SelectSeq(hits, keep)
RelaxedFilter(hits) ==
    LET keep(h) == SimOf(h) >= Val(MIN_SIM)
    IN IF IsNone(MIN_SIM) THEN hits ELSE SelectSeq(hits, keep)
\* A variant of the gate that applies the title and category test whatever
\* `relax` is.
StrictFilterIgnoringRelax(hits, user_msg, relax) ==
    StrictFilter(hits, RangeOf(_tokens(expand_query_with_synonyms(user_msg))))

_strict_filter_hits(hits, user_msg, relax) ==
    IF relax THEN RelaxedFilter(hits)
    ELSE StrictFilter(hits, RangeOf(_tokens(expand_query_with_synonyms(user_msg))))

\* \bcompare( prices?| price)?( of)?\b
COMPARE_PREFIX_RE ==
    Cat(<<WB, W("compare"),
          Opt(Alt(<<Cat(<<W(" price"), Opt(Lit("s"))>>), W(" price")>>)),
          Opt(W(" of")), WB>>)
\* \band\b|,|&
TARGET_SEP_RE == Alt(<<Cat(<<WB, W("and"), WB>>), Lit(","), Lit("&")>>)
StripAll(parts) == [i \in DOMAIN parts |-> Strip(parts[i])]
NonEmptyParts(parts) ==
    LET nonempty(p) == p # <<>>
    IN SelectSeq(parts, nonempty)
FirstTwo(parts) == SubSeq(parts, 1, IF Len(parts) < 2 THEN Len(parts) ELSE 2)
_split_compare_targets(msg) ==
    FirstTwo(NonEmptyParts(StripAll(
        ReSplit(TARGET_SEP_RE,
                ReSub(W(" versus "), Chars(" and "),
                      ReSub(W(" vs "), Chars(" and "),
                            ReSub(COMPARE_PREFIX_RE, <<" ">>, Lower(msg), FALSE),
                            FALSE),
                      FALSE),
                FALSE))))

\* Python floats.  The prices and pack sizes of the hits are floats, and
\* _unit_price_inr divides and multiplies them, each operation rounding its
\* result to the nearest double.  The mantissas need more than the 32 bits of
\* a model integer, so a natural number of any size is written as its digits
\* in base 2^15, lowest first, with no leading zero digit (zero is the empty
\* sequence).
Base == 2^15
RECURSIVE Big(_)
Big(n) == IF n = 0 THEN <<>> ELSE <<n % Base>> \o Big(n \div Base)
RECURSIVE BigTrim(_)
BigTrim(a) ==
    IF a = <<>> THEN <<>>
    ELSE IF a[Len(a)] = 0 THEN BigTrim(SubSeq(a, 1, Len(a) - 1)) ELSE a
Digit(a, i) == IF i <= Len(a) THEN a[i] ELSE 0
RECURSIVE BigAddFrom(_, _, _, _)
BigAddFrom(a, b, i, carry) ==
    IF i > Len(a) /\ i > Len(b) THEN (IF carry = 0 THEN <<>> ELSE <<carry>>)
    ELSE <<(Digit(a, i) + Digit(b, i) + carry) % Base>>
         \o BigAddFrom(a, b, i + 1, (Digit(a, i) + Digit(b, i) + carry) \div Base)
BigAdd(a, b) == BigAddFrom(a, b, 1, 0)
\* a - b for a >= b
RECURSIVE BigSubFrom(_, _, _, _)
BigSubFrom(a, b, i, borrow) ==
    IF i > Len(a) THEN <<>>
    ELSE <<(Digit(a, i) - Digit(b, i) - borrow + Base) % Base>>
         \o BigSubFrom(a, b, i + 1, IF Digit(a, i) - Digit(b, i) - borrow < 0 THEN 1 ELSE 0)
BigSub(a, b) == BigTrim(BigSubFrom(a, b, 1, 0))
RECURSIVE BigLeqFrom(_, _, _)
BigLeqFrom(a, b, i) ==
    IF i = 0 THEN TRUE
    ELSE IF a[i] # b[i] THEN a[i] < b[i]
    ELSE BigLeqFrom(a, b, i - 1)
BigLeq(a, b) == IF Len(a) # Len(b) THEN Len(a) < Len(b) ELSE BigLeqFrom(a, b, Len(a))
\* a * c for 0 <= c < Base
RECURSIVE BigMulFrom(_, _, _, _)
BigMulFrom(a, c, i, carry) ==
    IF i > Len(a) THEN (IF carry = 0 THEN <<>> ELSE <<carry>>)
    ELSE <<(a[i] * c + carry) % Base>> \o BigMulFrom(a, c, i + 1, (a[i] * c + carry) \div Base)
BigMulSmall(a, c) == IF c = 0 THEN <<>> ELSE BigMulFrom(a, c, 1, 0)
RECURSIVE BigMul(_, _)
BigMul(a, b) ==
    IF a = <<>> \/ b = <<>> THEN <<>>
    ELSE BigAdd(BigMulSmall(a, b[1]),
                IF Len(b) = 1 THEN <<>> ELSE <<0>> \o BigMul(a, Tail(b)))
\* floor(a / c) for 0 < c < Base, from digit i down, rem carried from above
RECURSIVE BigDivFrom(_, _, _, _)
BigDivFrom(a, c, i, rem) ==
    IF i = 0 THEN <<>>
    ELSE BigDivFrom(a, c, i - 1, (rem * Base + a[i]) % c) \o <<(rem * Base + a[i]) \div c>>
BigDivSmall(a, c) == BigTrim(BigDivFrom(a, c, Len(a), 0))
RECURSIVE Pow2(_)
Pow2(k) == IF k = 0 THEN 1 ELSE 2 * Pow2(k - 1)
\* a * 2^k and floor(a / 2^k)
BigShl(a, k) ==
    IF a = <<>> THEN <<>>
    ELSE [i \in 1..(k \div 15) |-> 0] \o BigMulSmall(a, Pow2(k % 15))
BigShr(a, k) ==
    IF Len(a) <= k \div 15 THEN <<>>
    ELSE BigDivSmall(SubSeq(a, (k \div 15) + 1, Len(a)), Pow2(k % 15))
RECURSIVE IntBits(_)
IntBits(n) == IF n = 0 THEN 0 ELSE 1 + IntBits(n \div 2)
BitLen(a) == IF a = <<>> THEN 0 ELSE 15 * (Len(a) - 1) + IntBits(a[Len(a)])
BigOdd(a) == a # <<>> /\ a[1] % 2 = 1

\* A Python float x >= 0 (an IEEE 754 double): x = m * 2^e with
\* 2^52 <= m < 2^53, or zero (m = 0).  No value here leaves the normal range.
FZero == [m |-> <<>>, e |-> 0]
\* the double nearest to n * 2^e (n > 0), or to a value strictly between
\* n * 2^e and (n + 1) * 2^e when `inexact`; ties go to the even mantissa
Normal(m, e) == IF BitLen(m) > 53 THEN [m |-> BigShr(m, 1), e |-> e + 1] ELSE [m |-> m, e |-> e]
RoundUp(q, rem, half, inexact) ==
    IF rem = half THEN inexact \/ BigOdd(q) ELSE BigLeq(half, rem)
RoundTo(q, rem, half, inexact, e) ==
    Normal(IF RoundUp(q, rem, half, inexact) THEN BigAdd(q, <<1>>) ELSE q, e)
RoundCut(n, d, q, inexact, e) ==
    RoundTo(q, BigSub(n, BigShl(q, d)), BigShl(<<1>>, d - 1), inexact, e + d)
RoundBits(n, e, inexact, len) ==
    IF len <= 53 THEN [m |-> BigShl(n, 53 - len), e |-> e - (53 - len)]
    ELSE RoundCut(n, len - 53, BigShr(n, len - 53), inexact, e)
Round(n, e, inexact) == RoundBits(n, e, inexact, BitLen(n))
\* float(n) of an int 0 <= n < 2^31
ToFloat(n) == IF n = 0 THEN FZero ELSE Round(Big(n), 0, FALSE)
\* x * c for an int constant 0 < c < Base
FMulSmall(x, c) == IF x.m = <<>> THEN FZero ELSE Round(BigMulSmall(x.m, c), x.e, FALSE)
\* the first 55 binary digits of the quotient of two mantissas, and what is
\* left of the dividend
RECURSIVE DivDigits(_, _, _)
DivPut(q, r2, d, one) ==
    DivDigits(BigAdd(BigAdd(q, q), IF one THEN <<1>> ELSE <<>>),
              IF one THEN BigSub(r2, d) ELSE r2, d)
DivNext(q, r2, d) == DivPut(q, r2, d, BigLeq(d, r2))
DivDigits(q, r, d) ==
    IF BitLen(q) = 55 THEN [q |-> q, r |-> r] ELSE DivNext(q, BigAdd(r, r), d)
RoundQuotient(qr, e) == Round(qr.q, e, qr.r # <<>>)
\* x / y for x, y > 0; geq: the mantissa of x is not below that of y
DivMantissas(x, y, geq) ==
    RoundQuotient(DivDigits(IF geq THEN <<1>> ELSE <<>>,
                            IF geq THEN BigSub(x.m, y.m) ELSE x.m, y.m),
                  x.e - y.e - (IF geq THEN 54 ELSE 55))
\* x / y for y > 0
FDiv(x, y) == IF x.m = <<>> THEN FZero ELSE DivMantissas(x, y, BigLeq(y.m, x.m))
FLess(x, y) ==
    IF y.m = <<>> THEN FALSE
    ELSE IF x.m = <<>> THEN TRUE
    ELSE x.e < y.e \/ (x.e = y.e /\ x.m # y.m /\ BigLeq(x.m, y.m))
\* the float of a decimal literal with one decimal place, given in tenths
Tenths(t) == FDiv(ToFloat(t), ToFloat(10))


\* _unit_price_inr: rupees per kilogram as a float, None when undefined.  The
\* model writes a price or a pack size as an integer number of tenths; the
\* float the program holds is the double nearest to that decimal.
UnitIsOneOf(unit, names) == unit \in {Chars(n) : n \in names}
\* A variant that takes the pack size for grams whatever the unit is.
GramsIgnoringUnit(val, unit) == Some(val)

\* lines 222-229: the pack size in grams, None for a unit that is not a mass
Grams(val, unit) ==
    IF UnitIsOneOf(unit, {"kg", "kilogram", "kilograms"}) THEN Some(FMulSmall(val, 1000))
    ELSE IF UnitIsOneOf(unit, {"g", "gram", "grams"}) THEN Some(val)
    ELSE IF UnitIsOneOf(unit, {"mg"}) THEN Some(FDiv(val, ToFloat(1000)))
    ELSE None

\* line 230: (price / grams) * 1000.0
PerKilogram(price, grams) ==
    IF IsNone(grams) THEN None ELSE Some(FMulSmall(FDiv(price, Val(grams)), 1000))
UnitPrice(price, val, unit) ==
    IF IsNone(price) \/ IsNone(val) THEN None
    ELSE IF Val(val) <= 0 THEN None
    ELSE PerKilogram(Tenths(Val(price)), Grams(Tenths(Val(val)), unit))
\* the unit prices of the prices, pack sizes and units of the model, computed
\* once
PackPrices == {None, Some(0), Some(500), Some(600), Some(900)}
PackValues == {None, Some(0), Some(10), Some(161), Some(2000), Some(5000), Some(10000),
               Some(161000)}
PackUnits == {<<>>} \cup {Chars(u) : u \in {"kg", "g", "mg", "ml", "l"}}
UnitPriceCache ==
    {<<k, UnitPrice(k[1], k[2], k[3])>> : k \in PackPrices \X PackValues \X PackUnits}
UnitPriceCached(price, val, unit) ==
    (CHOOSE c \in UnitPriceCache : c[1] = <<price, val, unit>>)[2]
_unit_price_inr(hit) ==
    UnitPriceCached(hit.price_inr, hit.weight.value, Lower(OrEmpty(hit.weight.unit)))

\* syn_index[r]: the union of the synonym sets that hold r
SynIndex(r) ==
    UNION {RangeOf(SYNONYMS[n][2]) : n \in {m \in DOMAIN SYNONYMS : r \in RangeOf(SYNONYMS[m][2])}}
MatchesRequired(name_toks, required) ==
    \E r \in required : r \in name_toks \/ SynIndex(r) \cap name_toks # {}
FilterForRequired(hits, required) ==
    LET keep(h) ==
            /\ IsNone(MIN_SIM) \/ SimOf(h) >= Val(MIN_SIM)
            /\ MatchesRequired(RangeOf(_tokens(OrEmpty(h.title))), required)
    IN SelectSeq(hits, keep)
OrHits(out, hits) == IF out # <<>> THEN out ELSE hits
_filter_hits_for_target(hits, target) ==
    IF _required_tokens_for_target(target) = {} THEN hits
    ELSE OrHits(FilterForRequired(hits, _required_tokens_for_target(target)), hits)

\* the unit price of each hit
UnitPrices(hits) == [i \in DOMAIN hits |-> _unit_price_inr(hits[i])]
\* the first hit that no hit undercuts, among those with a unit price
CheapestByUnitPrice(hits, ups) ==
    LET ok == {i \in DOMAIN hits : ~IsNone(ups[i])}
        best == {i \in ok : \A j \in ok : ~FLess(Val(ups[j]), Val(ups[i]))}
    IN IF ok = {} THEN None ELSE Some(hits[SetMin(best)])
CheapestPerKg(hits) == CheapestByUnitPrice(hits, UnitPrices(hits))
Cheapest(hits) ==
    LET ok == {i \in DOMAIN hits : ~IsNone(hits[i].price_inr)}
        best == {i \in ok : \A j \in ok : Val(hits[i].price_inr) <= Val(hits[j].price_inr)}
    IN IF ok = {} THEN None ELSE Some(hits[SetMin(best)])
\* the first of the two choices that exists, else the first hit
FirstOffer(hits, first, second) ==
    IF ~IsNone(first) THEN first
    ELSE IF ~IsNone(second) THEN second
    ELSE IF hits # <<>> THEN Some(hits[1])
    ELSE None
\* A variant that looks at the raw price before the unit price.
PickLowestPriceFirst(hits) == FirstOffer(hits, Cheapest(hits), CheapestPerKg(hits))

_pick_best_offer(hits) == FirstOffer(hits, CheapestPerKg(hits), Cheapest(hits))

\* The messages the chat endpoint receives in the model, and every query text
\* the handler then hands to extract_filters or to search.
ChatMessages ==
    {Chars(m) : m \in {"hi", "compare dal", "compare besan vs chana dal", "show dal",
                       "sugar", "chana dal", "dal under 55", "hi compare dal",
                       "compare besan 500g vs chana dal", "show me all products",
                       "compare besan / chana dal", "hi show dal",
                       "show besan vs chana dal", " "}}
ProductQuery(user_msg) ==
    expand_query_with_synonyms(
        IF ExtractNormalized(user_msg, normalize_query(user_msg)).query # <<>>
        THEN ExtractNormalized(user_msg, normalize_query(user_msg)).query
        ELSE user_msg)
ChatQueries ==
    {Strip(m) : m \in ChatMessages}
    \cup {ProductQuery(Strip(m)) : m \in ChatMessages}
    \cup {expand_query_with_synonyms(t) :
            t \in UNION {RangeOf(_split_compare_targets(Strip(m))) : m \in ChatMessages}}
    \cup {Chars("*")}

\* extract_filters over the queries of the model, computed once
SearchQueries == {Chars("dal"), Chars("dal under 55")}
KnownQueries == SearchQueries \cup ChatQueries
FilterCache == [q \in KnownQueries |-> extract_filters(q)]
ExtractCached(q) == IF q \in DOMAIN FilterCache THEN FilterCache[q] ELSE extract_filters(q)

\* GET /tata/search.  req: the query parameters; env: what the capabilities
\* return to this call (raw: the index's (doc, dist) pairs; ce_scores: the
\* re-ranker's score of each passage text).  The result records the stages.
\* Each stage takes the values of the stages before it as parameters.
\* steps 6 and 7
Finish(req, handle, use, candidates, ce_used, scored, deduped, sorted) ==
    [status |-> 200, handle |-> handle, use |-> use, candidates |-> candidates,
     ce_used |-> ce_used, scored |-> scored, deduped |-> deduped, sorted |-> sorted,
     hits |-> Truncate(sorted, req.k)]
SortStage(req, handle, use, candidates, ce_used, scored, deduped) ==
    Finish(req, handle, use, candidates, ce_used, scored, deduped,
           FinalSort(deduped, req.sort, ce_used))
\* step 5
DedupStage(req, handle, use, candidates, ce_used, scored) ==
    SortStage(req, handle, use, candidates, ce_used, scored,
              Deduped(scored, req.distinct_by_sku, ce_used))
\* step 4: `if ranker == "cross_encoder" and candidates:` asks for the re-ranker,
\* which may raise; every other request is ranked by dense distance
RankStage(req, env, cards, handle, use, candidates, want_ce, got) ==
    IF want_ce /\ got.raised
    THEN [status |-> 500, handle |-> handle, use |-> use, candidates |-> candidates,
          ce_used |-> FALSE, scored |-> <<>>, deduped |-> <<>>, sorted |-> <<>>,
          hits |-> <<>>]
    ELSE DedupStage(req, IF want_ce THEN got.handle ELSE handle, use, candidates, want_ce,
                    Scored(cards, env.raw, candidates, want_ce, env.ce_scores))
\* step 3
CandidateStage(req, env, cards, has_ce, handle, use, candidates) ==
    RankStage(req, env, cards, handle, use, candidates,
              req.ranker = "cross_encoder" /\ candidates # <<>>,
              _get_reranker(has_ce, handle, req.ce_model))
\* steps 1 and 2
FilterStage(req, env, cards, has_ce, handle, use) ==
    CandidateStage(req, env, cards, has_ce, handle, use, Candidates(cards, env.raw, use))
search(req, env, cards, has_ce, handle) ==
    FilterStage(req, env, cards, has_ce, handle, EffectiveFilters(req, ExtractCached(req.q)))

(***************************************************************************)
(* Bounds and input sets                                                   *)
(***************************************************************************)
MaxRaw == 3
MaxChatRaw == 2
MaxCompareRaw == 1
Dists == {1, 2}
CEScores == {-1, 0, 1}
SortModes == {"relevance", "price_asc", "price_desc", "title_asc"}
Rankers == {"relevance", "cross_encoder"}
DefaultCEModel == "cross-encoder/ms-marco-MiniLM-L-6-v2"
\* the k of a request: one that cuts a full result list, and one that does not
Ks == {MaxRaw - 1, MaxRaw}
\* the query with the explicit filter parameters sent along with it
FilterInputs ==
    LET In(q, p, v, u) == [q |-> Chars(q), max_price |-> p, weight_value |-> v, weight_unit |-> u]
    IN { In("dal", None, None, None),
         In("dal", None, Some(10), None),
         In("dal", None, None, Some(Chars("KG"))),
         In("dal under 55", None, None, None) }

\* What the index can return: distinct passages, nearest first, at most `width`
\* of them (and at most `bound` in the model), all of the filtered category
\* when a category filter is given.
RawResultsUpTo(bound, width, category) ==
    LET Pairs == [doc : StoreDocs, dist : Dists]
        n == IF width < bound THEN width ELSE bound
    IN {r \in UNION {[1..m -> Pairs] : m \in 0..n} :
          /\ \A i, j \in DOMAIN r : i < j =>
                /\ r[i].doc # r[j].doc
                /\ r[i].dist <= r[j].dist
          /\ \A i \in DOMAIN r : IsNone(category) \/ r[i].doc.category = category}

MaxOf(a, b) == IF a >= b THEN a ELSE b

VARIABLES
    HAS_CE,         \* tata_search.HAS_CE: sentence_transformers could be imported
    _reranker,      \* tata_search._reranker: the process-wide re-ranker handle
    _cards_by_sku,  \* tata_search._cards_by_sku: the in-memory card index
    cards_jsonl,    \* data/processed/cards.jsonl: the cards the latest ingestion wrote
    pc,             \* "idle", or "done" once a request has been answered
    req,            \* the parameters of the request
    env,            \* what the index and the re-ranker returned to it
    resp,           \* its result
    body,           \* the message of the chat request being handled
    locals,         \* the locals of the chat handler
    out,            \* the chat handler's answer
    llm_calls       \* the language-model calls made for the chat request

vars == <<HAS_CE, _reranker, _cards_by_sku, cards_jsonl, pc, req, env, resp, body, locals, out, llm_calls>>
chat_vars == <<body, locals, out, llm_calls>>

NoValue == <<>>

\* The process started before the latest ingestion: it holds the cards it
\* read at import, while cards.jsonl and the store are the later ingestion's.
Init ==
    /\ HAS_CE \in BOOLEAN
    /\ _reranker = None
    /\ _cards_by_sku = LoadedCards
    /\ cards_jsonl = ReindexedCards
    /\ pc = "idle"
    /\ req = NoValue
    /\ env = NoValue
    /\ resp = NoValue
    /\ body = NoValue
    /\ locals = NoValue
    /\ out = NoValue
    /\ llm_calls = 0

\* The endpoint receives a request (FastAPI has validated the parameters).
Receive ==
    /\ pc = "idle"
    /\ \E fi \in FilterInputs, sort \in SortModes, ranker \in Rankers, distinct \in BOOLEAN,
          k \in Ks :
         req' = [q |-> fi.q, k |-> k, category |-> None, max_price |-> fi.max_price,
                 weight_value |-> fi.weight_value, weight_unit |-> fi.weight_unit,
                 distinct_by_sku |-> distinct, sort |-> sort, ranker |-> ranker,
                 ce_model |-> DefaultCEModel, ce_k |-> 30]
    /\ pc' = "called"
    /\ UNCHANGED <<HAS_CE, _reranker, _cards_by_sku, cards_jsonl, env, resp, chat_vars>>

\* The passages the re-ranker is asked to score in a call: the candidates'
\* texts when the cross-encoder is asked for and can be had, else none.
PairsToScore(r, cards, raw, has_ce, handle) ==
    IF r.ranker = "cross_encoder" /\ (has_ce \/ ~IsNone(handle))
    THEN {p.doc.page_content :
            p \in RangeOf(Candidates(cards, raw, EffectiveFilters(r, ExtractCached(r.q))))}
    ELSE {}

\* One call of search with parameters r: the index returns raw, the re-ranker
\* (when it is called) returns a score for each candidate's text, and search
\* does the rest.
CallSearch(r, bound) ==
    /\ \E raw \in RawResultsUpTo(bound, MaxOf(r.ce_k, r.k),
                                 EffectiveFilters(r, ExtractCached(r.q)).category) :
         \E ce \in [PairsToScore(r, _cards_by_sku, raw, HAS_CE, _reranker) -> CEScores] :
            env' = [raw |-> raw, ce_scores |-> ce]
    /\ resp' = search(r, env', _cards_by_sku, HAS_CE, _reranker)
    /\ _reranker' = resp'.handle

\* The handler of GET /tata/search runs.
Handle ==
    /\ pc = "called"
    /\ CallSearch(req, MaxRaw)
    /\ pc' = "done"
    /\ UNCHANGED <<HAS_CE, _cards_by_sku, cards_jsonl, req, chat_vars>>

\* The response is sent; the request's objects are discarded.
Respond ==
    /\ pc = "done"
    /\ pc' = "idle"
    /\ req' = NoValue
    /\ env' = NoValue
    /\ resp' = NoValue
    /\ UNCHANGED <<HAS_CE, _reranker, _cards_by_sku, cards_jsonl, chat_vars>>

Next == Receive \/ Handle \/ Respond

Spec == Init /\ [][Next]_vars

(***************************************************************************)
(* POST /tata/chat.  The handler's position is pc: it routes the message,  *)
(* calls search (once, or once per comparison target), calls the language  *)
(* model, and answers.                                                     *)
(***************************************************************************)
GREETING == "Hello! How can I assist you with Tata Sampann products today?"
MISSING_TARGETS == "Tell me the two products to compare"
INSUFFICIENT_DATA == "I couldn't find enough price data to compare"
LISTING_UNAVAILABLE == "Product listing is unavailable right now"
CLARIFICATION == "I'd be happy to help! For accurate pricing, please mention the product and pack size"
LLM_TEXT == "resp.choices[0].message.content"

ChatOut(reply, used_results, intent, reason) ==
    [status |-> 200, reply |-> reply, used_results |-> used_results,
     intent |-> intent, reason |-> reason]
Failure(detail) ==
    [status |-> 500, reply |-> detail, used_results |-> <<>>, intent |-> "", reason |-> ""]

\* the parameters of a core_search call of the handler
CoreSearch(q, k, parsed, sort) ==
    [q |-> q, k |-> k, category |-> parsed.category, max_price |-> parsed.max_price,
     weight_value |-> parsed.weight_value, weight_unit |-> parsed.weight_unit,
     distinct_by_sku |-> DISTINCT_BY_SKU, sort |-> sort, ranker |-> RANKER,
     ce_model |-> CE_MODEL, ce_k |-> CE_K]
NoFilters == [category |-> None, max_price |-> None, weight_value |-> None, weight_unit |-> None]

ChatReceive ==
    /\ pc = "idle"
    /\ body' \in ChatMessages
    /\ pc' = "chat_called"
    /\ llm_calls' = 0
    /\ UNCHANGED <<HAS_CE, _reranker, _cards_by_sku, cards_jsonl, req, env, resp, locals, out>>

\* lines 282-301 and 371-373: the branch the message takes
\* A variant of the compare branch that goes on with a single target.
RouteCompareAnyTarget(user_msg, targets) ==
    IF Len(targets) < 1
    THEN /\ out' = ChatOut(MISSING_TARGETS, <<>>, "compare", "missing_targets")
         /\ pc' = "chat_done"
         /\ UNCHANGED locals
    ELSE /\ locals' = [flow |-> "compare", user_msg |-> user_msg, targets |-> targets,
                       i |-> 1, used |-> <<>>, bests |-> <<>>]
         /\ pc' = "chat_compare"
         /\ UNCHANGED out

RouteCompare(user_msg, targets) ==
    IF Len(targets) < 2
    THEN /\ out' = ChatOut(MISSING_TARGETS, <<>>, "compare", "missing_targets")
         /\ pc' = "chat_done"
         /\ UNCHANGED locals
    ELSE /\ locals' = [flow |-> "compare", user_msg |-> user_msg, targets |-> targets,
                       i |-> 1, used |-> <<>>, bests |-> <<>>]
         /\ pc' = "chat_compare"
         /\ UNCHANGED out
RouteProduct(user_msg, browse, parsed) ==
    /\ locals' = [flow |-> IF browse THEN "browse" ELSE "product",
                  user_msg |-> user_msg, browse |-> browse, parsed |-> parsed,
                  expanded_q |-> IF browse THEN Chars("*")
                                 ELSE expand_query_with_synonyms(
                                        IF parsed.query # <<>> THEN parsed.query ELSE user_msg),
                  hits |-> <<>>, strict_hits |-> <<>>]
    /\ pc' = "chat_search"
    /\ UNCHANGED out
\* A variant of the routing that tests compare intent before small talk.
RouteCompareFirst(user_msg) ==
    IF is_compare_intent(user_msg)
    THEN RouteCompare(user_msg, _split_compare_targets(user_msg))
    ELSE IF user_msg = <<>> \/ is_smalltalk(user_msg)
    THEN /\ out' = ChatOut(GREETING, <<>>, "non_product", "")
         /\ pc' = "chat_done"
         /\ UNCHANGED locals
    ELSE RouteProduct(user_msg, is_browse_intent(user_msg), ExtractCached(user_msg))

Route(user_msg) ==
    IF user_msg = <<>> \/ is_smalltalk(user_msg)
    THEN /\ out' = ChatOut(GREETING, <<>>, "non_product", "")
         /\ pc' = "chat_done"
         /\ UNCHANGED locals
    ELSE IF is_compare_intent(user_msg)
    THEN RouteCompare(user_msg, _split_compare_targets(user_msg))
    ELSE RouteProduct(user_msg, is_browse_intent(user_msg), ExtractCached(user_msg))
ChatRoute ==
    /\ pc = "chat_called"
    /\ Route(Strip(body))
    /\ UNCHANGED <<HAS_CE, _reranker, _cards_by_sku, cards_jsonl, req, env, resp, body, llm_calls>>

\* lines 374-405: the search of the product or browse flow, the grounding
\* gate, and the replies that need no language model
\* A variant of the gate that goes on to the language model whatever the
\* filter left.
GroundedAlways(strict_hits) ==
    /\ pc' = "chat_llm"
    /\ UNCHANGED out

Grounded(strict_hits) ==
    IF strict_hits = <<>>
    THEN /\ out' = IF locals.browse
                   THEN ChatOut(LISTING_UNAVAILABLE, <<>>, "browse", "no_results")
                   ELSE ChatOut(CLARIFICATION, <<>>, "product", "no_strong_hits")
         /\ pc' = "chat_done"
    ELSE /\ pc' = "chat_llm"
         /\ UNCHANGED out
AfterSearch(res) ==
    IF res.status = 500
    THEN /\ out' = Failure("Search failed")
         /\ pc' = "chat_done"
         /\ UNCHANGED locals
    ELSE /\ locals' = [locals EXCEPT
                         !.hits = res.hits,
                         !.strict_hits = _strict_filter_hits(res.hits, locals.user_msg,
                                                             locals.browse)]
         /\ Grounded(locals'.strict_hits)
ChatSearch ==
    /\ pc = "chat_search"
    /\ req' = CoreSearch(locals.expanded_q, IF locals.browse THEN MaxOf(K, 20) ELSE K,
                         locals.parsed, IF locals.browse THEN "popularity" ELSE "relevance")
    /\ CallSearch(req', MaxChatRaw)
    /\ AfterSearch(resp')
    /\ UNCHANGED <<HAS_CE, _cards_by_sku, cards_jsonl, body, llm_calls>>

\* lines 304-336: the search for one comparison target, and after the last
\* target the check that both have a best offer
OfferedBest(hits_f, target, best) ==
    IF hits_f = <<>> \/ IsNone(best)
    THEN [locals EXCEPT !.i = @ + 1]
    ELSE [locals EXCEPT !.i = @ + 1,
                        !.used = @ \o SubSeq(hits_f, 1, IF Len(hits_f) < 5 THEN Len(hits_f) ELSE 5),
                        !.bests = Append(@, [target |-> target, best |-> Val(best)])]
Offered(hits_f, target) == OfferedBest(hits_f, target, _pick_best_offer(hits_f))
Compared ==
    IF locals'.i <= Len(locals'.targets)
    THEN pc' = "chat_compare" /\ UNCHANGED out
    ELSE IF Len(locals'.bests) < 2
    THEN /\ out' = ChatOut(INSUFFICIENT_DATA, locals'.used, "compare", "insufficient_data")
         /\ pc' = "chat_done"
    ELSE pc' = "chat_llm" /\ UNCHANGED out
AfterCompareSearch(res, target) ==
    /\ _reranker' = res.handle
    /\ IF res.status = 500
       THEN /\ out' = Failure("Search failed")
            /\ pc' = "chat_done"
            /\ UNCHANGED locals
       ELSE /\ locals' = Offered(_filter_hits_for_target(res.hits, target), target)
            /\ Compared
\* (what the index and the re-ranker returned to the call is not kept beyond
\* the loop's iteration)
ChatCompare ==
    /\ pc = "chat_compare"
    /\ req' = CoreSearch(expand_query_with_synonyms(locals.targets[locals.i]), MaxOf(K, 12),
                         NoFilters, "relevance")
    /\ \E raw \in RawResultsUpTo(MaxCompareRaw, MaxOf(req'.ce_k, req'.k),
                                 EffectiveFilters(req', ExtractCached(req'.q)).category) :
         \E ce \in [PairsToScore(req', _cards_by_sku, raw, HAS_CE, _reranker) -> CEScores] :
            AfterCompareSearch(search(req', [raw |-> raw, ce_scores |-> ce], _cards_by_sku,
                                      HAS_CE, _reranker),
                               locals.targets[locals.i])
    /\ env' = NoValue
    /\ resp' = NoValue
    /\ UNCHANGED <<HAS_CE, _cards_by_sku, cards_jsonl, body, llm_calls>>

\* client.chat.completions.create: a reply, or an exception (HTTP 500)
ChatGenerate ==
    /\ pc = "chat_llm"
    /\ llm_calls' = llm_calls + 1
    /\ \E ok \in BOOLEAN :
         out' = IF ~ok THEN Failure("LLM error")
                ELSE IF locals.flow = "compare"
                THEN ChatOut(LLM_TEXT, locals.used, "compare", "")
                ELSE ChatOut(LLM_TEXT, locals.strict_hits, locals.flow, "")
    /\ pc' = "chat_done"
    /\ UNCHANGED <<HAS_CE, _reranker, _cards_by_sku, cards_jsonl, req, env, resp, body, locals>>

\* The response is sent; the request's objects are discarded.
ChatRespond ==
    /\ pc = "chat_done"
    /\ pc' = "idle"
    /\ body' = NoValue
    /\ locals' = NoValue
    /\ out' = NoValue
    /\ req' = NoValue
    /\ env' = NoValue
    /\ resp' = NoValue
    /\ llm_calls' = 0
    /\ UNCHANGED <<HAS_CE, _reranker, _cards_by_sku, cards_jsonl>>

NextChat == ChatReceive \/ ChatRoute \/ ChatSearch \/ ChatCompare \/ ChatGenerate \/ ChatRespond

SpecChat == Init /\ [][NextChat]_vars

(***************************************************************************)
(* _matches_weight on its own: a card and a weight request drawn from      *)
(* bounded sets, and the function applied to them.                         *)
(***************************************************************************)
WeightValues == {None, Some(10), Some(5000)}
WeightUnits == {None, Some(Chars("kg")), Some(Chars("KG")), Some(Chars("g")), Some(<<>>)}
CardUnits == {None, Some(Chars("kg")), Some(Chars("Kg")), Some(Chars("g"))}
WeightCards ==
    {[EmptyDict EXCEPT !.net_quantity = nq] :
        nq \in {None} \cup {Some(x) : x \in [value : WeightValues, unit : CardUnits]}}

InitWeight ==
    /\ HAS_CE = FALSE
    /\ _reranker = None
    /\ _cards_by_sku = LoadedCards
    /\ cards_jsonl = LoadedCards
    /\ pc = "weight"
    /\ req \in [card : WeightCards, weight_value : WeightValues, weight_unit : WeightUnits]
    /\ env = NoValue
    /\ resp = NoValue
    /\ body = NoValue
    /\ locals = NoValue
    /\ out = NoValue
    /\ llm_calls = 0

MatchWeight ==
    /\ pc = "weight"
    /\ resp' = _matches_weight(req.card, req.weight_value, req.weight_unit)
    /\ pc' = "matched"
    /\ UNCHANGED <<HAS_CE, _reranker, _cards_by_sku, cards_jsonl, req, env, chat_vars>>

NextWeight == MatchWeight

SpecWeight == InitWeight /\ [][NextWeight]_vars

(***************************************************************************)
(* GET /tata/search with the cross-encoder asked for and a long result     *)
(* list: a product with a long description has one passage per chunk       *)
(* (S1#desc-1, S1#desc-2, ...), and the index returns the nearest of them. *)
(***************************************************************************)
MaxBatch == 7
DescIds == <<"S1#desc-1", "S1#desc-2", "S1#desc-3", "S1#desc-4", "S1#desc-5",
             "S1#desc-6", "S1#desc-7", "S1#desc-8", "S1#desc-9">>
DescDoc(i) ==
    Doc(DescIds[i], Some(Chars("S1")), Some(Chars("Chana Dal")), Some(Chars("Pulses")),
        TRUE, Some(500))
\* k and ce_k within their validated ranges (1..50 and 5..100)
BatchKs == {1, 5, MaxBatch}
BatchCeKs == {5, 6}
\* the index returns the m nearest chunks, m at most max(ce_k, k): the first
\* j of them at distance 1, the others at distance 2
BatchRaws(width) ==
    {[i \in 1..m |-> [doc |-> DescDoc(i), dist |-> IF i <= j THEN 1 ELSE 2]] :
        m \in 0..(IF width < MaxBatch THEN width ELSE MaxBatch), j \in {0, 1, MaxBatch}}

BatchReceive ==
    /\ pc = "idle"
    /\ \E k \in BatchKs, ce_k \in BatchCeKs, distinct \in BOOLEAN :
         req' = [q |-> Chars("dal"), k |-> k, category |-> None, max_price |-> None,
                 weight_value |-> None, weight_unit |-> None,
                 distinct_by_sku |-> distinct, sort |-> "relevance",
                 ranker |-> "cross_encoder", ce_model |-> DefaultCEModel, ce_k |-> ce_k]
    /\ pc' = "called"
    /\ UNCHANGED <<HAS_CE, _reranker, _cards_by_sku, cards_jsonl, env, resp, chat_vars>>

\* The handler runs; the re-ranker, when it is called, is called once, with
\* the pairs of all candidates, and gives every pair of the batch a score.
BatchHandle ==
    /\ pc = "called"
    /\ \E raw \in BatchRaws(MaxOf(req.ce_k, req.k)), c \in CEScores :
         env' = [raw |-> raw,
                 ce_scores |-> [t \in PairsToScore(req, _cards_by_sku, raw, HAS_CE, _reranker)
                                  |-> c]]
    /\ resp' = search(req, env', _cards_by_sku, HAS_CE, _reranker)
    /\ _reranker' = resp'.handle
    /\ pc' = "done"
    /\ UNCHANGED <<HAS_CE, _cards_by_sku, cards_jsonl, req, chat_vars>>

NextBatch == BatchReceive \/ BatchHandle \/ Respond

SpecBatch == Init /\ [][NextBatch]_vars

(***************************************************************************)
(* extract_filters on its own: a query put together from a product word,   *)
(* a price phrase and a pack phrase, the function applied to it, and the    *)
(* function applied again to the cleaned query it returned.                *)
(***************************************************************************)
ProductWords == {"", "chana", "dal", "besan"}
PricePhrases == {"", "under 50", "rs 50", "under 50 rs", "below 50"}
PackPhrases == {"", "1kg", "200 g", "1 KG"}
FilterQueries ==
    {Join(SelectSeq(<<Chars(w), Chars(p), Chars(g)>>, LAMBDA s : s # <<>>)) :
        w \in ProductWords, p \in PricePhrases, g \in PackPhrases}

InitFilters ==
    /\ HAS_CE = FALSE
    /\ _reranker = None
    /\ _cards_by_sku = LoadedCards
    /\ cards_jsonl = LoadedCards
    /\ pc = "filters"
    /\ req \in [q : FilterQueries]
    /\ env = NoValue
    /\ resp = NoValue
    /\ body = NoValue
    /\ locals = NoValue
    /\ out = NoValue
    /\ llm_calls = 0

Reextracted(f) == [first |-> f, again |-> extract_filters(f.query)]
ExtractFilters ==
    /\ pc = "filters"
    /\ resp' = Reextracted(extract_filters(req.q))
    /\ pc' = "extracted"
    /\ UNCHANGED <<HAS_CE, _reranker, _cards_by_sku, cards_jsonl, req, env, chat_vars>>

NextFilters == ExtractFilters

SpecFilters == InitFilters /\ [][NextFilters]_vars

(***************************************************************************)
(* _strict_filter_hits on its own: a message and a list of hits (of which   *)
(* the filter reads the title and the category), and the function applied   *)
(* with relax=False.                                                        *)
(***************************************************************************)
MaxStrictHits == 2
StrictMessages ==
    {Chars(m) : m \in {"kaju 200g", "chai", "dals", "sugar", "tea seeds", "moong"}}
StrictTitles ==
    {None} \cup {Some(Chars(s)) : s \in {"Roasted Cashews 200g", "Moong Dal 500g",
                                          "Premium Leaf", "Besan"}}
StrictCategories ==
    {None} \cup {Some(Chars(s)) : s \in {"Dry Fruits", "Pulses", "Tea, Coffee and Beverages",
                                          "Sugar and Salt"}}
StrictHits == [title : StrictTitles, category : StrictCategories]

InitStrict ==
    /\ HAS_CE = FALSE
    /\ _reranker = None
    /\ _cards_by_sku = LoadedCards
    /\ cards_jsonl = LoadedCards
    /\ pc = "strict"
    /\ req \in [user_msg : StrictMessages,
                 hits : UNION {[1..n -> StrictHits] : n \in 0..MaxStrictHits}]
    /\ env = NoValue
    /\ resp = NoValue
    /\ body = NoValue
    /\ locals = NoValue
    /\ out = NoValue
    /\ llm_calls = 0

StrictFilterHits ==
    /\ pc = "strict"
    /\ resp' = _strict_filter_hits(req.hits, req.user_msg, FALSE)
    /\ pc' = "strict_done"
    /\ UNCHANGED <<HAS_CE, _reranker, _cards_by_sku, cards_jsonl, req, env, chat_vars>>

NextStrict == StrictFilterHits

SpecStrict == InitStrict /\ [][NextStrict]_vars

(***************************************************************************)
(* _pick_best_offer on its own: a list of hits (of which the function      *)
(* reads the price and the pack), and the function applied to it.          *)
(***************************************************************************)
MaxOfferHits == 2
OfferPrices == {None, Some(500), Some(600)}
OfferValues == {None, Some(0), Some(10), Some(5000)}
OfferUnits == {None, Some(Chars("kg")), Some(Chars("G")), Some(Chars("ml"))}
OfferHits == [price_inr : OfferPrices, weight : [value : OfferValues, unit : OfferUnits]]

InitOffer ==
    /\ HAS_CE = FALSE
    /\ _reranker = None
    /\ _cards_by_sku = LoadedCards
    /\ cards_jsonl = LoadedCards
    /\ pc = "offer"
    /\ req \in [hits : UNION {[1..n -> OfferHits] : n \in 0..MaxOfferHits}]
    /\ env = NoValue
    /\ resp = NoValue
    /\ body = NoValue
    /\ locals = NoValue
    /\ out = NoValue
    /\ llm_calls = 0

PickBestOffer ==
    /\ pc = "offer"
    /\ resp' = _pick_best_offer(req.hits)
    /\ pc' = "picked"
    /\ UNCHANGED <<HAS_CE, _reranker, _cards_by_sku, cards_jsonl, req, env, chat_vars>>

NextOffer == PickBestOffer

SpecOffer == InitOffer /\ [][NextOffer]_vars

(***************************************************************************)
(* POST /admin/reindex next to GET /tata/search, from a fresh process: the *)
(* store holds the passages of the cards in cards.jsonl.                   *)
(***************************************************************************)
InitReindex ==
    /\ HAS_CE \in BOOLEAN
    /\ _reranker = None
    /\ _cards_by_sku = LoadedCards
    /\ cards_jsonl = LoadedCards
    /\ pc = "idle"
    /\ req = NoValue
    /\ env = NoValue
    /\ resp = NoValue
    /\ body = NoValue
    /\ locals = NoValue
    /\ out = NoValue
    /\ llm_calls = 0

\* main.reindex -> ingest: the cards are written to cards.jsonl and their
\* passages upserted into the store; _load_cards is not called.
Reindex ==
    /\ pc = "idle"
    /\ cards_jsonl' = ReindexedCards
    /\ UNCHANGED <<HAS_CE, _reranker, _cards_by_sku, pc, req, env, resp, chat_vars>>

ReindexReceive ==
    /\ Receive
    /\ req'.q = Chars("dal") /\ IsNone(req'.weight_value) /\ IsNone(req'.weight_unit)
    /\ req'.sort = "relevance" /\ req'.k = MaxRaw

\* The handler of GET /tata/search runs against the store as it is now.
ReindexHandle ==
    /\ pc = "called"
    /\ \E raw \in {r \in RawResultsUpTo(MaxRaw, MaxOf(req.ce_k, req.k), None) :
                       \A i \in DOMAIN r : r[i].doc \in PassagesOf(cards_jsonl)} :
         \E ce \in [PairsToScore(req, _cards_by_sku, raw, HAS_CE, _reranker) -> CEScores] :
            env' = [raw |-> raw, ce_scores |-> ce]
    /\ resp' = search(req, env', _cards_by_sku, HAS_CE, _reranker)
    /\ _reranker' = resp'.handle
    /\ pc' = "done"
    /\ UNCHANGED <<HAS_CE, _cards_by_sku, cards_jsonl, req, chat_vars>>

NextReindex == Reindex \/ ReindexReceive \/ ReindexHandle \/ Respond

SpecReindex == InitReindex /\ [][NextReindex]_vars

(***************************************************************************)
(* _unit_price_inr on its own: two hits whose prices, pack sizes and units *)
(* are drawn from bounded sets (among them the same mass written in        *)
(* kilograms, grams and milligrams), and the function applied to both.     *)
(***************************************************************************)
PricedPrices == {None, Some(0), Some(600)}
PricedValues == {None, Some(0), Some(10), Some(161), Some(10000), Some(161000)}
PricedUnits ==
    {None} \cup {Some(Chars(u)) : u \in {"kg", "G", "mg", "ml", "l"}}
PricedHits == [price_inr : PricedPrices, weight : [value : PricedValues, unit : PricedUnits]]

InitUnitPrice ==
    /\ HAS_CE = FALSE
    /\ _reranker = None
    /\ _cards_by_sku = LoadedCards
    /\ cards_jsonl = LoadedCards
    /\ pc = "price"
    /\ req \in [hits : [1..2 -> PricedHits]]
    /\ env = NoValue
    /\ resp = NoValue
    /\ body = NoValue
    /\ locals = NoValue
    /\ out = NoValue
    /\ llm_calls = 0
UnitPriceOfHits ==
    /\ pc = "price"
    /\ resp' = [i \in 1..2 |-> _unit_price_inr(req.hits[i])]
    /\ pc' = "priced"
    /\ UNCHANGED <<HAS_CE, _reranker, _cards_by_sku, cards_jsonl, req, env, chat_vars>>
SpecUnitPrice == InitUnitPrice /\ [][UnitPriceOfHits]_vars

(***************************************************************************)
(* expand_query_with_synonyms on its own: the queries are up to MaxWords   *)
(* words, in mixed case and with punctuation, separated by blanks.         *)
(***************************************************************************)
MaxWords == 2
ExpandWords ==
    {"kaju", "Chana", "dal", "tea", "chai", "dates", "kalmi", "khajoor", "beverages", "dal,"}
RECURSIVE WordLists(_)
WordLists(n) ==
    IF n = 0 THEN {<<>>}
    ELSE WordLists(n - 1) \cup
         {Append(l, Chars(w)) : l \in {x \in WordLists(n - 1) : Len(x) = n - 1}, w \in ExpandWords}
ExpandQueries == {Join(l) : l \in WordLists(MaxWords)}

InitExpand ==
    /\ HAS_CE = TRUE
    /\ _reranker = None
    /\ _cards_by_sku = LoadedCards
    /\ cards_jsonl = LoadedCards
    /\ pc = "expand"
    /\ req \in {[q |-> q] : q \in ExpandQueries}
    /\ env = NoValue
    /\ resp = NoValue
    /\ body = NoValue
    /\ locals = NoValue
    /\ out = NoValue
    /\ llm_calls = 0
ExpandQuery ==
    /\ pc = "expand"
    /\ resp' = expand_query_with_synonyms(req.q)
    /\ pc' = "expanded"
    /\ UNCHANGED <<HAS_CE, _reranker, _cards_by_sku, cards_jsonl, req, env, chat_vars>>
SpecExpand == InitExpand /\ [][ExpandQuery]_vars

(***************************************************************************)
(* Concurrent requests with ranker=cross_encoder.  search is a plain `def` *)
(* endpoint, which FastAPI runs on a thread pool, so several calls can be  *)
(* inside _get_reranker at once.  Here pc, req, locals and resp hold one   *)
(* entry per thread (locals[t] is the call's local `reranker`), and env is *)
(* the sequence of CrossEncoder objects constructed so far.  Every request *)
(* has a candidate to score.                                               *)
(***************************************************************************)
MaxThreads == 2
Threads == 1..MaxThreads
CEModels == {DefaultCEModel, "cross-encoder/ms-marco-MiniLM-L-12-v2"}

InitRace ==
    /\ HAS_CE \in BOOLEAN
    /\ _reranker = None
    /\ _cards_by_sku = LoadedCards
    /\ cards_jsonl = LoadedCards
    /\ pc = [t \in Threads |-> "idle"]
    /\ req = [t \in Threads |-> NoValue]
    /\ env = <<>>
    /\ resp = [t \in Threads |-> NoValue]
    /\ body = NoValue
    /\ locals = [t \in Threads |-> NoValue]
    /\ out = NoValue
    /\ llm_calls = 0

\* a request arrives and reaches line 194
RaceReceive(t) ==
    /\ pc[t] = "idle"
    /\ \E model \in CEModels : req' = [req EXCEPT ![t] = [ce_model |-> model]]
    /\ pc' = [pc EXCEPT ![t] = "check"]
    /\ UNCHANGED <<HAS_CE, _reranker, _cards_by_sku, cards_jsonl, env, resp, chat_vars>>
\* lines 64-69: `if _reranker is None:` and `if not HAS_CE: raise`
RaceCheck(t) ==
    /\ pc[t] = "check"
    /\ pc' = [pc EXCEPT ![t] = IF ~IsNone(_reranker) THEN "return"
                                ELSE IF ~HAS_CE THEN "raised" ELSE "construct"]
    /\ UNCHANGED <<HAS_CE, _reranker, _cards_by_sku, cards_jsonl, req, env, resp, chat_vars>>
\* line 70: `_reranker = CrossEncoder(model_name)`
RaceConstruct(t) ==
    /\ pc[t] = "construct"
    /\ env' = Append(env, [model |-> req[t].ce_model, id |-> Len(env) + 1])
    /\ _reranker' = Some(env'[Len(env')])
    /\ pc' = [pc EXCEPT ![t] = "return"]
    /\ UNCHANGED <<HAS_CE, _cards_by_sku, cards_jsonl, req, resp, chat_vars>>
\* line 71: `return _reranker` reads the global
RaceReturn(t) ==
    /\ pc[t] = "return"
    /\ locals' = [locals EXCEPT ![t] = _reranker]
    /\ pc' = [pc EXCEPT ![t] = "predict"]
    /\ UNCHANGED <<HAS_CE, _reranker, _cards_by_sku, cards_jsonl, req, env, resp,
                   body, out, llm_calls>>
\* lines 196-199 and 268: the call's reranker scores the pairs; the explain
\* block names the request's ce_model
RacePredict(t) ==
    /\ pc[t] = "predict"
    /\ resp' = [resp EXCEPT ![t] = [status |-> 200, scored_by |-> Val(locals[t]),
                                     explain_ce_model |-> req[t].ce_model]]
    /\ pc' = [pc EXCEPT ![t] = "done"]
    /\ UNCHANGED <<HAS_CE, _reranker, _cards_by_sku, cards_jsonl, req, env, chat_vars>>
\* the response (the hits, or the 500 of _get_reranker) is sent
RaceRespond(t) ==
    /\ pc[t] \in {"done", "raised"}
    /\ pc' = [pc EXCEPT ![t] = "idle"]
    /\ req' = [req EXCEPT ![t] = NoValue]
    /\ locals' = [locals EXCEPT ![t] = NoValue]
    /\ resp' = [resp EXCEPT ![t] = NoValue]
    /\ UNCHANGED <<HAS_CE, _reranker, _cards_by_sku, cards_jsonl, env, body, out, llm_calls>>

NextRace ==
    \E t \in Threads :
        \/ RaceReceive(t)
        \/ RaceCheck(t)
        \/ RaceConstruct(t)
        \/ RaceReturn(t)
        \/ RacePredict(t)
        \/ RaceRespond(t)

SpecRace == InitRace /\ [][NextRace]_vars

(***************************************************************************)
(* Properties of search                                                    *)
(***************************************************************************)
Answered == pc = "done" /\ resp.status = 200
Resolves(sku) == ~IsNone(sku) /\ Val(sku) \in DOMAIN _cards_by_sku
\* title ascending, as the sort keys read titles: lowercased
TitleLeq(a, b) ==
    \/ Lower(OrEmpty(a.title)) = Lower(OrEmpty(b.title))
    \/ StrLess(Lower(OrEmpty(a.title)), Lower(OrEmpty(b.title)))
SkusOfRaw == {env.raw[i].doc.sku_id : i \in DOMAIN env.raw}
TextsOfRaw == {env.raw[i].doc.page_content : i \in DOMAIN env.raw}

\* C1: with distinct_by_sku=true the returned hits have pairwise distinct
\* sku_id values, whatever the raw list, the filters, the ranker and the sort.
C1_DistinctSkus ==
    (Answered /\ req.distinct_by_sku) =>
        \A i, j \in DOMAIN resp.hits :
            i # j => resp.hits[i].sku_id # resp.hits[j].sku_id
\* two passages of product S1 were retrieved and scored, and one S1 hit is
\* returned next to another product's
C1_Witness ==
    /\ Answered /\ req.distinct_by_sku
    /\ {"S1#overview", "S1#diet"} \subseteq {resp.scored[i].text : i \in DOMAIN resp.scored}
    /\ Len(resp.hits) = 2
    /\ \E i \in DOMAIN resp.hits : resp.hits[i].sku_id = Some(Chars("S1"))

\* C2: a call with ranker=cross_encoder while the re-ranker is unavailable
\* (package missing, no handle loaded) ends in an error, whatever the index
\* returned and whether or not a candidate survives the filters.
C2_UnavailableRerankerIsAnError ==
    (pc = "done" /\ req.ranker = "cross_encoder" /\ ~HAS_CE /\ IsNone(_reranker)
        /\ env.raw # <<>>)
    => resp.status = 500

\* C4: every returned hit has a sku_id that resolves to a card of the
\* in-memory card index.
C4_HitsResolve ==
    Answered => \A i \in DOMAIN resp.hits : Resolves(resp.hits[i].sku_id)

\* C5: with a max_price in effect, every passage of the candidate set belongs
\* to a card that has an mrp, and that mrp is at most max_price.
C5_CandidatesWithinPrice ==
    (pc = "done" /\ ~IsNone(resp.use.max_price)) =>
        \A i \in DOMAIN resp.candidates :
            /\ Resolves(resp.candidates[i].doc.sku_id)
            /\ ~IsNone(_cards_by_sku[Val(resp.candidates[i].doc.sku_id)].mrp)
            /\ Val(_cards_by_sku[Val(resp.candidates[i].doc.sku_id)].mrp)
                    <= Val(resp.use.max_price)
\* "dal under 55": S1 (mrp 50) is a candidate; S2, whose passage still says 50
\* while its card says 60, and S3, whose card has no mrp, were retrieved and
\* are not
C5_Witness ==
    /\ pc = "done" /\ resp.use.max_price = Some(550)
    /\ TextsOfRaw = {"S1#overview", "S2#overview", "S3#overview"}
    /\ {resp.candidates[i].doc.page_content : i \in DOMAIN resp.candidates} = {"S1#overview"}

\* C7: under sort=relevance the returned hits follow the ranking policy for
\* all score values: with the re-ranker, ce_score descending, then dense
\* distance ascending, then title ascending; without it, dense distance
\* ascending, then title ascending.
RelevanceOrdered(a, b, ce_used) ==
    IF ce_used
    THEN \/ Val(a.ce_score) > Val(b.ce_score)
         \/ /\ Val(a.ce_score) = Val(b.ce_score)
            /\ \/ a.score < b.score
               \/ (a.score = b.score /\ TitleLeq(a, b))
    ELSE \/ a.score < b.score
         \/ (a.score = b.score /\ TitleLeq(a, b))
C7_RelevanceOrder ==
    (Answered /\ req.sort = "relevance") =>
        \A i \in 1..(Len(resp.hits) - 1) :
            RelevanceOrdered(resp.hits[i], resp.hits[i + 1], resp.ce_used)

\* C8: with distinct_by_sku=true the hit kept for a sku is best within its
\* group of scored hits: maximal ce_score when the re-ranker was used, minimal
\* dense distance otherwise.
C8_BestOfGroupKept ==
    (Answered /\ req.distinct_by_sku) =>
        \A i \in DOMAIN resp.deduped : \A j \in DOMAIN resp.scored :
            resp.scored[j].sku_id = resp.deduped[i].sku_id =>
                IF resp.ce_used
                THEN Val(resp.deduped[i].ce_score) >= Val(resp.scored[j].ce_score)
                ELSE resp.deduped[i].score <= resp.scored[j].score

\* C9: under price_asc adjacent hits have non-decreasing prices and the hits
\* without a price come after all priced hits; under price_desc the priced
\* hits have non-increasing prices and the hits without a price still come
\* last; hits of equal price are in title order.
PriceOrdered(a, b, sort) ==
    /\ IsNone(a.price_inr) => IsNone(b.price_inr)
    /\ (~IsNone(a.price_inr) /\ ~IsNone(b.price_inr)) =>
          /\ sort = "price_asc" => Val(a.price_inr) <= Val(b.price_inr)
          /\ sort = "price_desc" => Val(a.price_inr) >= Val(b.price_inr)
          /\ Val(a.price_inr) = Val(b.price_inr) => TitleLeq(a, b)
C9_PriceOrder ==
    (Answered /\ req.sort \in {"price_asc", "price_desc"}) =>
        \A i \in 1..(Len(resp.hits) - 1) :
            PriceOrdered(resp.hits[i], resp.hits[i + 1], req.sort)
\* price_desc over three products: the dearest first, the one without a price
\* last, although it was retrieved first
C9_Witness ==
    /\ Answered /\ req.sort = "price_desc"
    /\ Len(resp.hits) = 3
    /\ IsNone(resp.scored[1].price_inr)
    /\ ~IsNone(resp.hits[1].price_inr) /\ ~IsNone(resp.hits[2].price_inr)
    /\ Val(resp.hits[1].price_inr) > Val(resp.hits[2].price_inr)
    /\ IsNone(resp.hits[3].price_inr)

\* C10: the final order does not depend on the order in which the index
\* delivered the passages: the same passages at the same distances, delivered
\* in another nearest-first order, give the same sequence of hits.
Deliveries(raw) ==
    {r \in [DOMAIN raw -> RangeOf(raw)] :
        /\ RangeOf(r) = RangeOf(raw)
        /\ \A i, j \in DOMAIN r : i < j => r[i].dist <= r[j].dist}
C10_OrderIndependent ==
    Answered =>
        \A r \in Deliveries(env.raw) :
            search(req, [env EXCEPT !.raw = r], _cards_by_sku, HAS_CE, _reranker).hits
                = resp.hits

\* C11: search returns at most k hits, and they are the first k of the
\* filtered, deduplicated and sorted list: nothing is filtered, deduplicated or
\* re-ordered after the cut.
C11_FirstKOfSorted ==
    Answered =>
        /\ Len(resp.hits) <= req.k
        /\ resp.sorted = FinalSort(Deduped(resp.scored, req.distinct_by_sku, resp.ce_used),
                                    req.sort, resp.ce_used)
        /\ \A i \in DOMAIN resp.sorted : i <= req.k =>
               i \in DOMAIN resp.hits /\ resp.hits[i] = resp.sorted[i]
\* three hits survive to the final sort and k = 2 cuts the last one off
C11_Witness ==
    /\ Answered /\ req.k = 2
    /\ Len(resp.sorted) = 3
    /\ resp.hits = <<resp.sorted[1], resp.sorted[2]>>

\* C12: in a call of search the re-ranker is invoked at most once, with one
\* batch (the pairs of the candidates), and that batch has at most ce_k pairs,
\* for every admissible k and ce_k.
C12_BatchWithinCeK ==
    (pc = "done" /\ resp.status = 200 /\ resp.ce_used) =>
        /\ DOMAIN env.ce_scores = {resp.candidates[i].doc.page_content :
                                     i \in DOMAIN resp.candidates}
        /\ Len(resp.candidates) <= req.ce_k

(***************************************************************************)
(* Properties of extract_filters                                           *)
(***************************************************************************)
\* C13: extract_filters applied to the cleaned query that extract_filters
\* returned finds no price and no weight: no constraint syntax is left in it.
C13_NoResidualConstraint ==
    pc = "extracted" =>
        /\ IsNone(resp.again.max_price)
        /\ IsNone(resp.again.weight_value)
        /\ IsNone(resp.again.weight_unit)

\* C14: for "chana under 50 rs 1kg" extract_filters returns max_price 50.0,
\* weight 1.0 kg, no category and the cleaned query "chana".
C14_ChanaUnder50Rs1Kg ==
    (pc = "extracted" /\ req.q = Chars("chana under 50 rs 1kg")) =>
        resp.first = [query |-> Chars("chana"), max_price |-> Some(500),
                      weight_value |-> Some(10), weight_unit |-> Some(Chars("kg")),
                      category |-> None]

(***************************************************************************)
(* Properties of _matches_weight                                           *)
(***************************************************************************)
Constrained == pc = "matched" /\ (~IsNone(req.weight_value) \/ ~IsNone(req.weight_unit))
ValueMatches ==
    ~IsNone(NQ(req.card).value) /\ Val(NQ(req.card).value) = Val(req.weight_value)
UnitMatches == Lower(OrEmpty(NQ(req.card).unit)) = Lower(Val(req.weight_unit))

\* C6 as stated: with a weight constraint supplied, an accepted card has a
\* net_quantity value and a unit, and they equal the requested ones.
C6_BothFieldsRequired ==
    (Constrained /\ resp) =>
        /\ ~IsNone(NQ(req.card).value) /\ ~IsNone(NQ(req.card).unit)
        /\ ~IsNone(req.weight_value) => ValueMatches
        /\ ~IsNone(req.weight_unit) => UnitMatches
\* C6, amended: with a weight constraint supplied, a card is accepted exactly
\* when every supplied constraint matches: a supplied value needs the card to
\* have that value, a supplied unit needs the card's unit (a missing unit
\* reading as the empty string) to equal it case-insensitively; the field of
\* a constraint that is not supplied is not looked at.
C6_SuppliedConstraintsMatch ==
    Constrained =>
        (resp <=> /\ ~IsNone(req.weight_value) => ValueMatches
                  /\ ~IsNone(req.weight_unit) => UnitMatches)
\* a request for the value alone accepts a card of that value that names no
\* unit
C6_Witness ==
    /\ Constrained /\ resp
    /\ req.weight_value = Some(10) /\ IsNone(req.weight_unit)
    /\ NQ(req.card).value = Some(10) /\ IsNone(NQ(req.card).unit)

(***************************************************************************)
(* Properties of _strict_filter_hits                                       *)
(***************************************************************************)
\* the tokens of the synonym-expanded message, and the family they name
ExpandedTokens == RangeOf(_tokens(expand_query_with_synonyms(req.user_msg)))
InferredFamily == FamilyHint(ExpandedTokens)
TitleShares(h) == RangeOf(_tokens(OrEmpty(h.title))) \cap ExpandedTokens # {}
CategoryIsAlias(h) ==
    /\ ~IsNone(InferredFamily)
    /\ Lower(OrEmpty(h.category)) \in CATEGORY_ALIASES[Val(InferredFamily)][2]
CategoryOverlaps(h) ==
    /\ IsNone(InferredFamily)
    /\ RangeOf(_tokens(Lower(OrEmpty(h.category)))) \cap ExpandedTokens # {}
GroundedHit(h) == TitleShares(h) \/ CategoryIsAlias(h) \/ CategoryOverlaps(h)

\* C15: with relax=false and no similarity cutoff, _strict_filter_hits keeps a
\* hit exactly when its title shares a token with the synonym-expanded query,
\* or a family is inferred from the query tokens and the hit's lowercased
\* category is an alias of it, or no family is inferred and the category's
\* tokens overlap the query tokens; the kept hits stay in order.
C15_KeepsExactlyGroundedHits ==
    pc = "strict_done" => resp = SelectSeq(req.hits, GroundedHit)
\* "kaju 200g": the hit titled "Roasted Cashews 200g" is kept and the hit
\* titled "Moong Dal 500g" is dropped
C15_Witness ==
    /\ pc = "strict_done" /\ req.user_msg = Chars("kaju 200g")
    /\ req.hits = <<[title |-> Some(Chars("Moong Dal 500g")), category |-> Some(Chars("Pulses"))],
                    [title |-> Some(Chars("Roasted Cashews 200g")),
                     category |-> Some(Chars("Dry Fruits"))]>>
    /\ resp = <<req.hits[2]>>

(***************************************************************************)
(* Properties of the chat handler                                          *)
(***************************************************************************)
InProductFlow == pc \in {"chat_search", "chat_llm", "chat_done"} /\ locals # NoValue
                 /\ locals.flow = "product"

\* C3: in the product flow, when the grounding filter leaves no hit the
\* handler answers with the fixed clarification and empty used_results and
\* has made no language-model call for the request; the language model is
\* called only when at least one grounded hit exists.
C3_NoEvidenceNoGeneration ==
    InProductFlow =>
        /\ (pc = "chat_done" /\ out.status = 200 /\ locals.strict_hits = <<>>) =>
               /\ out.reply = CLARIFICATION
               /\ out.used_results = <<>>
               /\ llm_calls = 0
        /\ llm_calls > 0 => locals.strict_hits # <<>>
        /\ pc = "chat_llm" => locals.strict_hits # <<>>
\* "sugar": search returned a hit, the grounding filter dropped it, and the
\* handler answered with the clarification
C3_Witness ==
    /\ InProductFlow /\ pc = "chat_done"
    /\ locals.hits # <<>> /\ locals.strict_hits = <<>>
    /\ out.reply = CLARIFICATION /\ llm_calls = 0
(***************************************************************************)
(* Properties of the comparison flow                                       *)
(***************************************************************************)
InCompareFlow == locals # NoValue /\ locals.flow = "compare"
\* the title of hit h holds a distinctive token of the target: a token of the
\* target outside the generic stop-set, of length 3 or more
TitleHasDistinctive(h, target) ==
    \E tok \in RangeOf(_tokens(target)) :
        /\ tok \notin GENERIC_TOKENS /\ Len(tok) >= 3
        /\ tok \in RangeOf(_tokens(OrEmpty(h.title)))

\* C16: every hit kept for a comparison target, and so every best offer, has
\* a title that contains a distinctive token of that target.
C16_KeptHitsNameTheTarget ==
    InCompareFlow =>
        \A i \in DOMAIN locals.bests :
            TitleHasDistinctive(locals.bests[i].best, locals.bests[i].target)

\* the title of hit h matches the target as _filter_hits_for_target matches:
\* it holds a required token of the target, or a synonym of one
TitleMatchesTarget(h, target) ==
    MatchesRequired(RangeOf(_tokens(OrEmpty(h.title))), _required_tokens_for_target(target))

\* C17: a comparison is answered only if each of the two targets has a hit
\* that matches it; otherwise the reply is the "insufficient data" one and the
\* language model is not called; an answered comparison holds exactly two best
\* offers, one per target, in target order.
C17_BothTargetsMatched ==
    InCompareFlow =>
        /\ (pc = "chat_llm" \/ llm_calls > 0) =>
              /\ Len(locals.bests) = 2
              /\ \A i \in DOMAIN locals.bests :
                    /\ locals.bests[i].target = locals.targets[i]
                    /\ TitleMatchesTarget(locals.bests[i].best, locals.targets[i])
        /\ (pc = "chat_done" /\ out.status = 200 /\ Len(locals.bests) < 2) =>
              /\ out.reply = INSUFFICIENT_DATA
              /\ llm_calls = 0

Routed == pc \in {"chat_search", "chat_compare", "chat_llm", "chat_done"}
SingleTarget ==
    /\ is_compare_intent(Strip(body))
    /\ Len(_split_compare_targets(Strip(body))) < 2
AskedForBothTargets ==
    /\ pc = "chat_done"
    /\ out = ChatOut(MISSING_TARGETS, <<>>, "compare", "missing_targets")
    /\ req = NoValue
    /\ llm_calls = 0

\* C18 as stated: a message with compare intent from which fewer than two
\* targets are recovered is answered with the missing-targets clarification,
\* with no search and no language-model call.
C18_SingleTargetAsksForBoth ==
    (Routed /\ SingleTarget) => AskedForBothTargets
\* C18, amended: a message that is not small talk (it names no greeting or
\* small-talk word), has compare intent and yields fewer than two targets is
\* answered with the missing-targets clarification, with no search and no
\* language-model call; one that is small talk is answered with the greeting,
\* also with no search and no language-model call.
C18_SingleTargetNeverCompared ==
    (Routed /\ SingleTarget) =>
        /\ pc = "chat_done" /\ req = NoValue /\ llm_calls = 0
        /\ IF is_smalltalk(Strip(body))
           THEN out = ChatOut(GREETING, <<>>, "non_product", "")
           ELSE out = ChatOut(MISSING_TARGETS, <<>>, "compare", "missing_targets")
\* "compare dal" is answered with the missing-targets clarification
C18_Witness ==
    /\ body = Chars("compare dal") /\ AskedForBothTargets

\* C19: in comparison mode the search run for a target applies no price
\* filter and no weight filter, whatever the target text contains.
C19_CompareSearchUnfiltered ==
    (InCompareFlow /\ req # NoValue) =>
        /\ IsNone(EffectiveFilters(req, ExtractCached(req.q)).max_price)
        /\ IsNone(EffectiveFilters(req, ExtractCached(req.q)).weight_value)
        /\ IsNone(EffectiveFilters(req, ExtractCached(req.q)).weight_unit)

(***************************************************************************)
(* Properties of _pick_best_offer                                          *)
(***************************************************************************)
HasUnitPrice(h) == ~IsNone(_unit_price_inr(h))
HasPrice(h) == ~IsNone(h.price_inr)
\* C20: for a non-empty list _pick_best_offer returns a hit of the list: one
\* of minimum unit price among the hits that have a unit price if there is
\* one; otherwise one of minimum price among the hits that have a price if
\* there is one; otherwise the first hit.  It returns no hit only for an
\* empty list.
C20_BestOffer ==
    pc = "picked" =>
        IF req.hits = <<>> THEN IsNone(resp)
        ELSE /\ ~IsNone(resp)
             /\ Val(resp) \in RangeOf(req.hits)
             /\ IF \E h \in RangeOf(req.hits) : HasUnitPrice(h)
                THEN /\ HasUnitPrice(Val(resp))
                     /\ \A h \in RangeOf(req.hits) : HasUnitPrice(h) =>
                            ~FLess(Val(_unit_price_inr(h)), Val(_unit_price_inr(Val(resp))))
                ELSE IF \E h \in RangeOf(req.hits) : HasPrice(h)
                THEN /\ HasPrice(Val(resp))
                     /\ \A h \in RangeOf(req.hits) : HasPrice(h) =>
                            Val(Val(resp).price_inr) <= Val(h.price_inr)
                ELSE Val(resp) = req.hits[1]
\* the second hit costs more than the first and is the cheaper of the two per
\* kilogram: it is the one returned
C20_Witness ==
    /\ pc = "picked" /\ Len(req.hits) = 2
    /\ HasUnitPrice(req.hits[1]) /\ HasUnitPrice(req.hits[2])
    /\ Val(req.hits[2].price_inr) > Val(req.hits[1].price_inr)
    /\ resp = Some(req.hits[2])

(***************************************************************************)
(* Properties of the card index                                            *)
(***************************************************************************)
\* C27: in every reachable state the in-memory card index that search uses
\* equals the cards written by the latest ingestion, so that a passage of a
\* freshly ingested product resolves to its card.
C27_CardsFollowIngestion ==
    /\ _cards_by_sku = cards_jsonl
    /\ pc = "done" =>
          \A i \in DOMAIN env.raw :
              env.raw[i].doc \in PassagesOf(cards_jsonl) => Resolves(env.raw[i].doc.sku_id)

(***************************************************************************)
(* Properties of the re-ranker handle                                      *)
(***************************************************************************)
\* C21: across every interleaving of concurrent requests the re-ranker is
\* constructed at most once, the handle once set is the one instance, and
\* every request scores with that instance.
C21_OneRerankerInstance ==
    /\ Len(env) <= 1
    /\ ~IsNone(_reranker) => _reranker = Some(env[1])
    /\ \A t \in Threads : pc[t] = "done" => resp[t].scored_by = env[1]

\* C28: the re-ranker that scores a request is the model the request names
\* in ce_model, and the ce_model of the explain block names the model that
\* produced the scores.
C28_ScoredByRequestedModel ==
    \A t \in Threads : pc[t] = "done" =>
        /\ resp[t].scored_by.model = req[t].ce_model
        /\ resp[t].explain_ce_model = resp[t].scored_by.model

(***************************************************************************)
(* Properties of expand_query_with_synonyms                                *)
(***************************************************************************)
\* a is b with some elements left out
RECURSIVE IsSubsequence(_, _)
IsSubsequence(a, b) ==
    IF a = <<>> THEN TRUE
    ELSE IF b = <<>> THEN FALSE
    ELSE IF a[1] = b[1] THEN IsSubsequence(Tail(a), Tail(b))
    ELSE IsSubsequence(a, Tail(b))
\* C22: every token of the tokenized query appears in the expanded query, in
\* the same relative order; the expansion starts with the first token and
\* only inserts terms after tokens.
C22_ExpansionKeepsTokens ==
    pc = "expanded" =>
        /\ IsSubsequence(_tokens(req.q), _tokens(resp))
        /\ _tokens(req.q) # <<>> => _tokens(resp)[1] = _tokens(req.q)[1]
        /\ _tokens(req.q) = <<>> => resp = <<>>
\* a two-token query whose tokens both have synonyms has been expanded to
\* more tokens than it had
C22_Witness ==
    /\ pc = "expanded"
    /\ req.q = Chars("Chana tea")
    /\ Len(_tokens(resp)) > 2

(***************************************************************************)
(* Properties of the browse flow                                           *)
(***************************************************************************)
InBrowseFlow == locals # NoValue /\ locals.flow = "browse"
BrowseSearched ==
    InBrowseFlow /\ pc \in {"chat_llm", "chat_done"} /\ resp # NoValue /\ resp.status = 200
\* C23: "show me all products" is routed to the browse flow with no price,
\* weight or category filter inferred; and in the browse flow the grounding
\* gate returns exactly the hits of the search.
C23_BrowseIsUngated ==
    /\ (Routed /\ body = Chars("show me all products")) =>
          /\ InBrowseFlow
          /\ locals.parsed.category = None
          /\ locals.parsed.max_price = None
          /\ locals.parsed.weight_value = None
          /\ locals.parsed.weight_unit = None
    /\ BrowseSearched => locals.hits = resp.hits /\ locals.strict_hits = locals.hits
\* a browse search has returned a hit that the title and category test of
\* the product flow would have dropped, and the gate kept it
C23_Witness ==
    /\ BrowseSearched
    /\ body = Chars("show me all products")
    /\ locals.strict_hits # <<>>
    /\ StrictFilterIgnoringRelax(locals.hits, locals.user_msg, TRUE) # locals.hits

(***************************************************************************)
(* Properties of the routing of a chat request                             *)
(***************************************************************************)
\* C25: a comparison message whose two product names are joined by "and",
\* "vs", "versus" or a slash is split into exactly those two targets (here:
\* joined by a slash), and never into more than two.
C25_SlashSeparatesTargets ==
    /\ (Routed /\ body = Chars("compare besan / chana dal")) =>
          InCompareFlow /\ locals.targets = <<Chars("besan"), Chars("chana dal")>>
    /\ InCompareFlow => Len(locals.targets) <= 2

\* C29: every search the chat handler calls gets a sort mode that search
\* defines (relevance, price_asc, price_desc or title_asc).
C29_ChatSortIsDefined ==
    (pc \in {"chat_search", "chat_compare", "chat_llm", "chat_done"} /\ req # NoValue)
        => req.sort \in SortModes

\* C30: a request takes exactly one branch, in the priority order
\* non-product (empty or small talk), compare, browse, product; the
\* non-product branch answers with the greeting without a search or a
\* language-model call, and compare intent never leads to the browse or the
\* product flow.
NonProductAnswer ==
    /\ pc = "chat_done"
    /\ out = ChatOut(GREETING, <<>>, "non_product", "")
    /\ locals = NoValue
    /\ req = NoValue
    /\ llm_calls = 0
C30_BranchPriority ==
    Routed =>
        IF Strip(body) = <<>> \/ is_smalltalk(Strip(body)) THEN NonProductAnswer
        ELSE IF is_compare_intent(Strip(body))
        THEN IF locals = NoValue
             THEN /\ pc = "chat_done"
                  /\ out = ChatOut(MISSING_TARGETS, <<>>, "compare", "missing_targets")
                  /\ req = NoValue
                  /\ llm_calls = 0
             ELSE InCompareFlow
        ELSE IF is_browse_intent(Strip(body)) THEN InBrowseFlow
        ELSE locals # NoValue /\ locals.flow = "product"
\* a greeting that also asks for a comparison has been answered with the
\* greeting alone
C30_Witness ==
    /\ body = Chars("hi compare dal")
    /\ is_compare_intent(Strip(body))
    /\ NonProductAnswer

(***************************************************************************)
(* Properties of the fallback to the raw retrieval                         *)
(***************************************************************************)
\* C24: when no raw pair survives card resolution and the numeric filters
\* while the raw retrieval is not empty, search answers with a non-empty
\* result built from every raw pair and ranked by dense distance, whichever
\* ranker was asked for.
C24_FallbackToRaw ==
    (pc = "done" /\ resp.candidates = <<>> /\ env.raw # <<>>) =>
        /\ resp.status = 200
        /\ ~resp.ce_used
        /\ Len(resp.scored) = Len(env.raw)
        /\ \A i, j \in DOMAIN resp.scored : i < j => resp.scored[i].score <= resp.scored[j].score
        /\ resp.hits # <<>>

\* C24, amended: in that case search answers 200 without the re-ranker under
\* either ranker setting; its scored list holds one hit per raw pair in
\* dense-distance order; every returned hit is one of them, in dense-distance
\* order when sort is relevance; and the result is empty exactly when
\* distinct_by_sku is on and no raw passage carries a sku_id.
FellBackToRaw == pc = "done" /\ resp.candidates = <<>> /\ env.raw # <<>>
C24_FallbackScoresEveryRawPair ==
    FellBackToRaw =>
        /\ resp.status = 200
        /\ ~resp.ce_used
        /\ Len(resp.scored) = Len(env.raw)
        /\ {h.text : h \in RangeOf(resp.scored)} = TextsOfRaw
        /\ \A i, j \in DOMAIN resp.scored : i < j => resp.scored[i].score <= resp.scored[j].score
        /\ \A h \in RangeOf(resp.hits) : h \in RangeOf(resp.scored)
        /\ req.sort = "relevance" =>
              \A i, j \in DOMAIN resp.hits : i < j => resp.hits[i].score <= resp.hits[j].score
        /\ resp.hits = <<>> <=>
              (req.distinct_by_sku /\ \A i \in DOMAIN env.raw : Falsy(env.raw[i].doc.sku_id))
\* a cross_encoder request whose raw pairs were all filtered out has been
\* answered with two of them, nearest first
C24_Witness ==
    /\ FellBackToRaw
    /\ req.ranker = "cross_encoder"
    /\ req.sort = "relevance"
    /\ Len(resp.hits) = 2
    /\ resp.hits[1].score < resp.hits[2].score

(***************************************************************************)
(* Properties of _unit_price_inr                                           *)
(***************************************************************************)
RECURSIVE Gcd(_, _)
Gcd(a, b) == IF b = 0 THEN a ELSE Gcd(b, a % b)
\* the fraction num/den in lowest terms (den > 0, num >= 0)
Frac(num, den) == IF num = 0 THEN <<0, 1>> ELSE <<num \div Gcd(num, den), den \div Gcd(num, den)>>
UnitOf(h) == Lower(OrEmpty(h.weight.unit))
IsKilograms(h) == UnitIsOneOf(UnitOf(h), {"kg", "kilogram", "kilograms"})
IsGrams(h) == UnitIsOneOf(UnitOf(h), {"g", "gram", "grams"})
IsMilligrams(h) == UnitIsOneOf(UnitOf(h), {"mg"})
\* the hit has a price, a positive pack size and a mass unit
PricedByMass(h) ==
    /\ ~IsNone(h.price_inr)
    /\ ~IsNone(h.weight.value)
    /\ Val(h.weight.value) > 0
    /\ IsKilograms(h) \/ IsGrams(h) \/ IsMilligrams(h)
\* the exact mass in grams and the exact price per kilogram of such a hit, as
\* fractions (prices and pack sizes are in tenths)
GramsOf(h) ==
    IF IsKilograms(h) THEN Frac(100 * Val(h.weight.value), 1)
    ELSE IF IsGrams(h) THEN Frac(Val(h.weight.value), 10)
    ELSE Frac(Val(h.weight.value), 10000)
ExactUnitPrice(h) == <<100 * Val(h.price_inr) * GramsOf(h)[2], GramsOf(h)[1]>>
BigDist(a, b) == IF BigLeq(a, b) THEN BigSub(b, a) ELSE BigSub(a, b)
\* two naturals that differ by at most 2^-50 of the second
BigClose(a, b) == BigLeq(BigShl(BigDist(a, b), 50), b)
\* the float x is num/den up to a relative error of 2^-50, a few roundings
FloatIsAbout(x, num, den) ==
    IF num = 0 THEN x = FZero
    ELSE /\ x.m # <<>>
         /\ BigClose(BigMul(BigShl(x.m, IF x.e > 0 THEN x.e ELSE 0), Big(den)),
                     BigShl(Big(num), IF x.e < 0 THEN -x.e ELSE 0))
\* two floats that differ by at most 2^-50 of the second
FloatsClose(x, y) ==
    \/ x = y
    \/ /\ x.m # <<>>
       /\ y.m # <<>>
       /\ BigClose(BigShl(x.m, x.e - (IF x.e < y.e THEN x.e ELSE y.e)),
                   BigShl(y.m, y.e - (IF x.e < y.e THEN x.e ELSE y.e)))
SameOffer(g, h) ==
    /\ PricedByMass(g)
    /\ PricedByMass(h)
    /\ g.price_inr = h.price_inr
    /\ GramsOf(g) = GramsOf(h)
\* C26: _unit_price_inr is defined exactly for a hit with a price, a positive
\* pack size and a mass unit (so not for ml, l or a missing unit), and two
\* hits with the same price and the same mass written in different units get
\* the same unit price.
C26_SameMassSameUnitPrice ==
    pc = "priced" =>
        /\ \A i \in 1..2 : ~IsNone(resp[i]) <=> PricedByMass(req.hits[i])
        /\ SameOffer(req.hits[1], req.hits[2]) => resp[1] = resp[2]

\* C26, amended: _unit_price_inr is defined exactly for a hit with a price, a
\* positive pack size and a mass unit; its value is the price per kilogram
\* (price * 1000 / grams) up to the rounding of the float operations; two
\* hits with the same price and the same mass in different units get unit
\* prices that agree up to that rounding, and that are equal for 1 kg and
\* 1000 g.
C26_UnitPriceUpToRounding ==
    pc = "priced" =>
        /\ \A i \in 1..2 : ~IsNone(resp[i]) <=> PricedByMass(req.hits[i])
        /\ \A i \in 1..2 : PricedByMass(req.hits[i]) =>
              FloatIsAbout(Val(resp[i]), ExactUnitPrice(req.hits[i])[1],
                           ExactUnitPrice(req.hits[i])[2])
        /\ SameOffer(req.hits[1], req.hits[2]) => FloatsClose(Val(resp[1]), Val(resp[2]))
        /\ (SameOffer(req.hits[1], req.hits[2]) /\ GramsOf(req.hits[1]) = <<1000, 1>>)
              => resp[1] = resp[2]
\* 16.1 kg and 16100 g at the same price have been given unit prices that
\* differ in the last digit
C26_Witness ==
    /\ pc = "priced"
    /\ req.hits[1] = [price_inr |-> Some(600),
                       weight |-> [value |-> Some(161), unit |-> Some(Chars("kg"))]]
    /\ req.hits[2] = [price_inr |-> Some(600),
                       weight |-> [value |-> Some(161000), unit |-> Some(Chars("G"))]]
    /\ resp[1] # resp[2]
    /\ FloatsClose(Val(resp[1]), Val(resp[2]))

=============================================================================
